---- MODULE Spec2Model ----
(***************************************************************************)
(* Model of the gemini-livewire-avatar backend: the session registry       *)
(* (backend/core/session.py), the admission layer (backend/main.py) and    *)
(* the per-connection relay (backend/core/websocket_handler.py).           *)
(*                                                                         *)
(* Three specifications share the variables:                               *)
(*   SpecRegistry   the registry operations applied to arbitrary inputs    *)
(*   SpecAdmission  connections passing through handle_connection          *)
(*   Spec           one connection inside handle_client with its two lanes *)
(***************************************************************************)
EXTENDS Integers, Sequences, FiniteSets, TLC

\* ------------------------------------------------------------------ bounds
\* session.py:33 sets MAX_SESSIONS = 1000; the model scales it down.
MAX_SESSIONS == 2
\* The clock (datetime.now(), time()) runs over 0..MaxTime.
MaxTime == 2
\* session.py:34 sets SESSION_TIMEOUT_SECONDS = 600; the model scales it down.
SESSION_TIMEOUT_SECONDS == 1

\* main.py:66 sets MAX_CONNECTIONS_PER_MINUTE = 10, main.py:67 sets
\* RATE_LIMIT_WINDOW_SECONDS = 60, main.py:71 sets MAX_CONCURRENT_CONNECTIONS = 100;
\* the model scales them down.
MAX_CONNECTIONS_PER_MINUTE == 2
RATE_LIMIT_WINDOW_SECONDS == 2
MAX_CONCURRENT_CONNECTIONS == 2

VARIABLES
    now,                 \* the wall clock read by datetime.now() / time()
    active_sessions,     \* session.py:31, insertion-ordered dict as a sequence
    lastOp,              \* the last registry operation applied and its outcome
    connection_attempts, \* main.py:65, IP -> timestamps of recorded attempts
    sem_value,           \* main.py:73, the free slots of connection_semaphore
    active_connections,  \* main.py:72
    ALLOW_NO_ORIGIN,     \* main.py:62, read from the environment at start
    conn,                \* each connection's place in handle_connection
    accepted_at,         \* IP -> times of its latest accepted rate checks
    lastArrival,         \* the IP and request of the arrival in the latest step
    hc,                  \* handle_client: where the coroutine stands
    attempt,             \* create_gemini_session: the attempt in progress
    delay,               \* create_gemini_session: the base delay, in milliseconds
    tries,               \* create_gemini_session: the failed attempts so far
    last_error,          \* create_gemini_session: the cause of the latest failure
    MODEL,               \* config.MODEL, read from the configuration at import
    ready_count,         \* how many times the ready signal was sent
    handle,              \* the upstream Live session of "async with"
    closeCount,          \* how many times the upstream handle was closed
    websocket,           \* the client websocket
    session,             \* the SessionState of this connection
    c_lane,              \* handle_client_messages: where the task stands
    g_lane,              \* handle_gemini_responses: where the task stands
    response_count,      \* websocket_handler.py:342
    todo,                \* handle_messages: the done tasks not yet inspected
    exc,                 \* the exception travelling through handle_client
    sent,                \* the messages handed to websocket.send in the latest step
    done_ev,             \* the content event whose processing ended in the latest step
    lane_ev,             \* what the client lane handled in the latest step
    upstream,            \* the latest call the client lane made on the upstream handle
    turn,                \* the upstream event in progress and what it delivered
    errors_sent,         \* the error messages handle_messages and handle_client sent
    session_lock,        \* session.py:32, the unit of work holding _session_lock
    unit_at,             \* each unit of work's statement
    running              \* the unit of work the event loop is running

regVars == <<active_sessions, lastOp>>
admVars == <<connection_attempts, sem_value, active_connections, ALLOW_NO_ORIGIN,
             conn, accepted_at, lastArrival>>
factoryVars == <<attempt, delay, tries, last_error>>
sessVars == <<hc, factoryVars, MODEL, handle, closeCount, ready_count, websocket,
              session, c_lane, g_lane, response_count, todo, exc, sent, done_ev>>
vars == <<now, active_sessions, lastOp, connection_attempts, sem_value,
          active_connections, ALLOW_NO_ORIGIN, conn, accepted_at, lastArrival,
          hc, attempt, delay, tries, last_error, MODEL, handle, closeCount,
          ready_count, websocket, session, c_lane, g_lane,
          response_count, todo, exc, sent, done_ev, lane_ev, upstream, turn,
          errors_sent, session_lock, unit_at, running>>
laneObs == <<lane_ev, upstream, turn>>
lockVars == <<session_lock, unit_at, running>>

\* ------------------------------------------------- session identifiers
Hex == <<"0", "1", "2", "3", "4", "5", "6", "7", "8", "9", "a", "b", "c", "d", "e", "f">>
HexChars == {Hex[i] : i \in 1..16} \cup {"A", "B", "C", "D", "E", "F"}
NL == "\n"

Rep(c, n) == [i \in 1..n |-> c]

\* The 8-4-4-4-12 text with fill digit c, version digit ver, variant digit var.
UuidText(c, ver, var) ==
    Rep(c, 8) \o <<"-">> \o Rep(c, 4) \o <<"-", ver>> \o Rep(c, 3)
        \o <<"-", var>> \o Rep(c, 3) \o <<"-">> \o Rep(c, 12)

\* Identifiers are named [kind, k]; Text gives the string handed to the code.
\* The valid ones differ in their fill digit, in either case.
Fill == <<"0", "A", "f", "7", "C", "e", "1", "B">>
NumIds == MAX_SESSIONS + 1
ValidIds == {[kind |-> "v4", k |-> k] : k \in 1..NumIds}
OddIds == {[kind |-> kd, k |-> 1] : kd \in {"newline", "version1", "traversal"}}
Ids == ValidIds \cup OddIds
NoId == [kind |-> "none", k |-> 0]

Text(id) ==
    CASE id.kind = "v4"        -> UuidText(Fill[id.k], "4", IF id.k % 2 = 0 THEN "B" ELSE "8")
      [] id.kind = "newline"   -> UuidText("0", "4", "8") \o <<NL>>
      [] id.kind = "version1"  -> UuidText("0", "1", "8")
      [] id.kind = "traversal" -> <<".", ".", "/", "e", "t", "c">>
      [] OTHER                 -> <<>>

\* The body of the pattern: 36 characters, 8-4-4-4-12 hex digits (either case),
\* version digit 4, variant digit in 8 9 a b (either case).
MatchesUuid4Body(s) ==
    /\ Len(s) = 36
    /\ \A i \in {9, 14, 19, 24} : s[i] = "-"
    /\ s[15] = "4"
    /\ s[20] \in {"8", "9", "a", "b", "A", "B"}
    /\ \A i \in (1..36) \ {9, 14, 15, 19, 20, 24} : s[i] \in HexChars

\* validate_session_id: re.match of ^...$ with re.IGNORECASE.  Without
\* re.MULTILINE, $ matches at the end of the string and also just before a
\* newline that is the last character of the string.
validate_session_id(s) ==
    \/ MatchesUuid4Body(s)
    \/ /\ Len(s) = 37
       /\ s[37] = NL
       /\ MatchesUuid4Body(SubSeq(s, 1, 36))

\* validate_session_id over the identifiers of the model, computed once.
ValidatedIds == {id \in Ids : validate_session_id(Text(id))}

\* ---------------------------------------------------------- the registry
\* active_sessions is a Python dict: iteration follows insertion order, an
\* assignment to an existing key keeps the key's place.
Keys(reg) == {reg[i].id : i \in 1..Len(reg)}
IndexOf(reg, id) == CHOOSE i \in 1..Len(reg) : reg[i].id = id
RemoveAt(reg, i) == SubSeq(reg, 1, i - 1) \o SubSeq(reg, i + 1, Len(reg))

\* SessionState() as the registry sees it: the key and the last_activity stamp
\* (default_factory=datetime.now).
NewEntry(id, t) == [id |-> id, last_activity |-> t]

\* active_sessions[session_id] = session
PutEntry(reg, id, t) ==
    IF id \in Keys(reg)
    THEN [reg EXCEPT ![IndexOf(reg, id)] = NewEntry(id, t)]
    ELSE Append(reg, NewEntry(id, t))

\* min(active_sessions.keys(), key=last_activity): the first minimal key in
\* iteration order.
OldestIndex(reg) ==
    CHOOSE i \in 1..Len(reg) :
        \A j \in 1..Len(reg) :
            /\ reg[i].last_activity <= reg[j].last_activity
            /\ (reg[j].last_activity = reg[i].last_activity => i <= j)

\* create_session with the capacity test off by one (> for >=).
create_session_offbyone(reg, id, t) ==
    IF id \notin ValidatedIds
    THEN [reg |-> reg, err |-> "ValueError", evicted |-> NoId]
    ELSE LET full == Len(reg) > MAX_SESSIONS
             oi   == IF full THEN OldestIndex(reg) ELSE 0
             reg1 == IF full THEN RemoveAt(reg, oi) ELSE reg
         IN  [reg     |-> PutEntry(reg1, id, t),
              err     |-> "none",
              evicted |-> IF full THEN reg[oi].id ELSE NoId]

\* create_session: the registry after the call, the error raised, the key evicted.
create_session(reg, id, t) ==
    IF id \notin ValidatedIds
    THEN [reg |-> reg, err |-> "ValueError", evicted |-> NoId]
    ELSE LET full == Len(reg) >= MAX_SESSIONS
             oi   == IF full THEN OldestIndex(reg) ELSE 0
             reg1 == IF full THEN RemoveAt(reg, oi) ELSE reg
         IN  [reg     |-> PutEntry(reg1, id, t),
              err     |-> "none",
              evicted |-> IF full THEN reg[oi].id ELSE NoId]

\* get_session: the entry, or None.
None == [id |-> NoId, last_activity |-> -1]
get_session(reg, id) ==
    IF id \in Keys(reg) THEN reg[IndexOf(reg, id)] ELSE None

\* remove_session without the membership test: del raises KeyError.
remove_session_unguarded(reg, id) ==
    IF id \in Keys(reg)
    THEN [reg |-> RemoveAt(reg, IndexOf(reg, id)), err |-> "none"]
    ELSE [reg |-> reg, err |-> "KeyError"]

\* remove_session: the registry after the call and the error raised.
remove_session(reg, id) ==
    IF id \in Keys(reg)
    THEN [reg |-> RemoveAt(reg, IndexOf(reg, id)), err |-> "none"]
    ELSE [reg |-> reg, err |-> "none"]

\* update_session_activity
update_session_activity(reg, id, t) ==
    IF id \in Keys(reg)
    THEN [reg EXCEPT ![IndexOf(reg, id)].last_activity = t]
    ELSE reg

\* The scan of the sweep with the test of line 128 inclusive (>= for >).
timed_out_sessions_inclusive(reg, t) ==
    SelectSeq(reg, LAMBDA e : t - e.last_activity >= SESSION_TIMEOUT_SECONDS)

\* The scan of cleanup_timed_out_sessions (124-129): the sessions inactive for
\* longer than the timeout at the time read in line 121, in iteration order.
timed_out_sessions(reg, t) ==
    SelectSeq(reg, LAMBDA e : t - e.last_activity > SESSION_TIMEOUT_SECONDS)

\* One round of cleanup_timed_out_sessions after its sleep: the scan, then
\* remove_session for each session collected (137-144). No await of the round
\* suspends, the lock being free whenever a unit of work is resumed.
cleanup_timed_out_sessions(reg, t) ==
    LET RECURSIVE remove_each(_, _)
        remove_each(r, gone) ==
            IF gone = <<>> THEN r
            ELSE remove_each(remove_session(r, Head(gone).id).reg, Tail(gone))
    IN  remove_each(reg, timed_out_sessions(reg, t))

\* ------------------------------------------------ SpecRegistry: actions
\* lastOp: the create or remove applied by the latest step (none if the step was
\* neither): its argument, the error raised, the key evicted and whether the
\* registry held the key before the call.
NoOp == [op |-> "none", id |-> NoId, err |-> "none", evicted |-> NoId, present |-> FALSE]

\* The clock advances (it is read, never set, by the program).
Tick ==
    /\ now < MaxTime
    /\ now' = now + 1
    /\ lastOp' = NoOp
    /\ UNCHANGED <<active_sessions, admVars>>

CreateSession(id) ==
    LET r == create_session(active_sessions, id, now)
    IN  /\ active_sessions' = r.reg
        /\ lastOp' = [op |-> "create", id |-> id, err |-> r.err, evicted |-> r.evicted,
                      present |-> id \in Keys(active_sessions)]
        /\ UNCHANGED <<now, admVars>>

RemoveSession(id) ==
    LET r == remove_session(active_sessions, id)
    IN  /\ active_sessions' = r.reg
        /\ lastOp' = [op |-> "remove", id |-> id, err |-> r.err, evicted |-> NoId,
                      present |-> id \in Keys(active_sessions)]
        /\ UNCHANGED <<now, admVars>>

UpdateSessionActivity(id) ==
    /\ active_sessions' = update_session_activity(active_sessions, id, now)
    /\ lastOp' = NoOp
    /\ UNCHANGED <<now, admVars>>

\* The background task of main.py:261 wakes from its sleep and sweeps.
CleanupTimedOutSessions ==
    /\ active_sessions' = cleanup_timed_out_sessions(active_sessions, now)
    /\ lastOp' = LET gone == timed_out_sessions(active_sessions, now)
                  IN  [NoOp EXCEPT !.op = "sweep",
                                   !.evicted = IF gone = <<>> THEN NoId ELSE Head(gone).id]
    /\ UNCHANGED <<now, admVars>>

\* The admission layer at process start (main.py:62-73).
Absent == "<None>"
Unread == [access |-> "unread", origin |-> Absent]
NoArrival == [ip |-> "none", ws |-> Unread]
Conns == 1..(MAX_CONNECTIONS_PER_MINUTE + 1)
AdmissionAtStart ==
    /\ connection_attempts = <<>>
    /\ sem_value = MAX_CONCURRENT_CONNECTIONS
    /\ active_connections = 0
    /\ conn = [c \in Conns |-> "idle"]
    /\ accepted_at = <<>>
    /\ lastArrival = NoArrival

\* handle_client before its first statement (websocket_handler.py:489-494): the
\* SessionState defaults of session.py:16-24, no task started, nothing sent.
NewSessionState == [client_interrupted |-> FALSE, is_receiving_response |-> FALSE,
                    message_count |-> 0]
NoLane == [at |-> "off", kind |-> "none"]
NoParts == [at |-> "off", kind |-> "none", parts |-> <<>>, turn_complete |-> FALSE]
NoEvent == [content |-> FALSE, turn_complete |-> FALSE, forwarded |-> FALSE, dropped |-> 0]
\* The model the configuration names when nothing overrides it.
PrimaryModel == "models/gemini-2.5-flash-native-audio-preview-09-2025"
SessionAtStart ==
    /\ hc = "start"
    /\ attempt = 0
    /\ delay = 0
    /\ tries = <<>>
    /\ last_error = "none"
    /\ ready_count = 0
    /\ handle = "none"
    /\ closeCount = 0
    /\ websocket = "open"
    /\ session = NewSessionState
    /\ c_lane = NoLane
    /\ g_lane = NoParts
    /\ response_count = 0
    /\ todo = {}
    /\ exc = "none"
    /\ sent = <<>>
    /\ done_ev = NoEvent

\* The units of work that take the registry lock: two connections' handle_client
\* and the background task of main.py:261.
Units == {"client1", "client2", "sweep"}

\* The lanes are observed in SpecLanes only, the units of work in SpecLock only.
NoMessage == [parses |-> FALSE, type |-> "none", data |-> -1]
NoLaneEvent == [what |-> "none", msg |-> NoMessage, at |-> "none", outcome |-> "none"]
NoResponse == [field |-> "none", interrupted |-> FALSE, parts |-> <<>>,
               turn_complete |-> FALSE]
LanesUnobserved ==
    /\ lane_ev = NoLaneEvent
    /\ upstream = [call |-> "none", type |-> "none", end_of_turn |-> FALSE]
    /\ turn = [event |-> NoResponse, delivered |-> <<>>]
    /\ errors_sent = 0
    /\ session_lock = "free"
    /\ unit_at = [u \in Units |-> 0]
    /\ running = "none"

InitRegistry ==
    /\ now = 0
    /\ active_sessions = <<>>
    /\ lastOp = NoOp
    /\ AdmissionAtStart
    /\ ALLOW_NO_ORIGIN = FALSE
    /\ SessionAtStart
    /\ LanesUnobserved
    /\ MODEL = PrimaryModel

NextRegistry ==
    /\ \/ Tick
       \/ \E id \in Ids : CreateSession(id)
       \/ \E id \in Ids : RemoveSession(id)
       \/ \E id \in Ids : UpdateSessionActivity(id)
       \/ CleanupTimedOutSessions
    /\ UNCHANGED <<sessVars, laneObs, errors_sent, lockVars>>

SpecRegistry == InitRegistry /\ [][NextRegistry]_vars

\* ------------------------------------------------- claims on the registry
EntryOf(reg, id) == reg[IndexOf(reg, id)]
Without(reg, id) == SelectSeq(reg, LAMBDA e : e.id # id)

\* C5: the registry never holds more than MAX_SESSIONS entries; a create on a
\* full registry removes exactly one existing entry, one with the oldest
\* last_activity, before the new entry is inserted, and a create below capacity
\* removes none.
C5_CreateStep(id) ==
    LET reg  == active_sessions
        regN == active_sessions'
    IN  (lastOp'.op = "create" /\ CreateSession(id) /\ lastOp'.err = "none") =>
            /\ id \in Keys(regN)
            /\ IF Len(reg) >= MAX_SESSIONS
               THEN \E old \in Keys(reg) :
                        /\ \A k \in 1..Len(reg) :
                               EntryOf(reg, old).last_activity <= reg[k].last_activity
                        /\ lastOp'.evicted = old
                        /\ Keys(reg) \ Keys(regN) = {old} \ {id}
                        /\ Without(regN, id) = Without(Without(reg, old), id)
               ELSE /\ Keys(reg) \subseteq Keys(regN)
                    /\ lastOp'.evicted = NoId
                    /\ Without(regN, id) = Without(reg, id)
C5_RegistryBounded ==
    /\ [](Len(active_sessions) <= MAX_SESSIONS)
    /\ [][C5_CreateStep(lastOp'.id)]_vars
\* A create of a new key on a full registry evicted the oldest entry.
C5_Witness ==
    /\ lastOp.op = "create" /\ lastOp.err = "none"
    /\ ~lastOp.present
    /\ lastOp.evicted # NoId
    /\ Len(active_sessions) = MAX_SESSIONS

\* The UUID-v4 pattern of the session identifier format: exactly the
\* 8-4-4-4-12 text, nothing before or after it.
ConformsToUuid4(s) == MatchesUuid4Body(s)
ConformingIds == {id \in Ids : ConformsToUuid4(Text(id))}

\* C6: for every identifier matching the UUID-v4 pattern, create succeeds and
\* get returns that session until remove or an eviction deletes it; for every
\* non-conforming identifier, create fails with the invalid-identifier error
\* and leaves the registry exactly as it was.
C6_CreateStep(id) ==
    (lastOp'.op = "create" /\ CreateSession(id)) =>
        IF id \in ConformingIds
        THEN /\ lastOp'.err = "none"
             /\ get_session(active_sessions', id) # None
        ELSE /\ lastOp'.err = "ValueError"
             /\ active_sessions' = active_sessions
C6_KeptUntilDeleted(id) ==
    (id \in Keys(active_sessions) /\ id \notin Keys(active_sessions')) =>
        \/ RemoveSession(id)
        \/ \E other \in Ids : CreateSession(other) /\ lastOp'.evicted = id
        \/ CleanupTimedOutSessions
C6_CreateValidatesIdentifier ==
    [][/\ C6_CreateStep(lastOp'.id)
       /\ \A id \in Keys(active_sessions) : C6_KeptUntilDeleted(id)]_vars

\* C7: remove(id) raises no error, deletes no entry other than the one keyed
\* by id, and a second call for the same identifier (or a call for an absent
\* identifier) leaves the registry unchanged.
C7_RemoveStep(id) ==
    LET reg  == active_sessions
        regN == active_sessions'
    IN  (lastOp'.op = "remove" /\ RemoveSession(id)) =>
            /\ lastOp'.err = "none"
            /\ regN = Without(reg, id)
            /\ (id \notin Keys(reg) => regN = reg)
            /\ remove_session(regN, id) = [reg |-> regN, err |-> "none"]
C7_RemoveIdempotent ==
    [][C7_RemoveStep(lastOp'.id)]_vars
\* A remove of a key the registry does not hold, with other entries registered.
C7_Witness ==
    /\ lastOp.op = "remove" /\ ~lastOp.present
    /\ lastOp.err = "none"
    /\ Len(active_sessions) > 0

\* =========================================================== admission
IPs == {"10.0.0.1", "10.0.0.2"}

\* A defaultdict(list) as a function on the keys it holds.
Lookup(d, k) == IF k \in DOMAIN d THEN d[k] ELSE <<>>
Store(d, k, v) == [x \in (DOMAIN d) \cup {k} |-> IF x = k THEN v ELSE d[x]]

\* check_rate_limit with the threshold test off by one (> for >=).
check_rate_limit_offbyone(attempts, ip, t) ==
    LET recent == SelectSeq(Lookup(attempts, ip),
                            LAMBDA x : t - x < RATE_LIMIT_WINDOW_SECONDS)
    IN  IF Len(recent) > MAX_CONNECTIONS_PER_MINUTE
        THEN [ok |-> FALSE, attempts |-> Store(attempts, ip, recent)]
        ELSE [ok |-> TRUE, attempts |-> Store(attempts, ip, Append(recent, t))]

\* check_rate_limit appending the time of the attempt before it decides.
check_rate_limit_recording(attempts, ip, t) ==
    LET recent == SelectSeq(Lookup(attempts, ip),
                            LAMBDA x : t - x < RATE_LIMIT_WINDOW_SECONDS)
    IN  [ok |-> Len(recent) < MAX_CONNECTIONS_PER_MINUTE,
         attempts |-> Store(attempts, ip, Append(recent, t))]

\* check_rate_limit: the decision and connection_attempts after the call.
check_rate_limit(attempts, ip, t) ==
    LET recent == SelectSeq(Lookup(attempts, ip),
                            LAMBDA x : t - x < RATE_LIMIT_WINDOW_SECONDS)
    IN  IF Len(recent) >= MAX_CONNECTIONS_PER_MINUTE
        THEN [ok |-> FALSE, attempts |-> Store(attempts, ip, recent)]
        ELSE [ok |-> TRUE, attempts |-> Store(attempts, ip, Append(recent, t))]

\* A pass of the sweep that deletes every record.
cleanup_rate_limiter_all(attempts, t) == [ip \in {} |-> <<>>]

\* One pass of cleanup_rate_limiter: the keys with no attempt, or with every
\* attempt older than the window, are deleted.
cleanup_rate_limiter(attempts, t) ==
    LET stale == {ip \in DOMAIN attempts :
                     \/ Len(attempts[ip]) = 0
                     \/ \A i \in 1..Len(attempts[ip]) :
                            t - attempts[ip][i] > RATE_LIMIT_WINDOW_SECONDS}
    IN  [ip \in (DOMAIN attempts) \ stale |-> attempts[ip]]

\* The allow-list main.py:46-49 builds when ALLOWED_ORIGINS is not set (local
\* development); empty items are dropped, so "" is never a member.
ALLOWED_ORIGINS == {"http://localhost:8000", "http://localhost:8080"}

\* A connection's handshake as validate_origin reads it: which attribute holds
\* the headers ("request", "request_headers", "neither": no such attribute,
\* "raises": reading it raises) and the value headers.get("Origin") returns,
\* Absent for None.
Requests ==
    {[access |-> "request", origin |-> o] :
        o \in {Absent, "", "http://localhost:8000", "http://evil.example"}}
    \cup {[access |-> "request_headers", origin |-> o] :
        o \in {Absent, "http://localhost:8080"}}
    \cup {[access |-> a, origin |-> Absent] : a \in {"neither", "raises"}}

\* validate_origin where a missing Origin is let through whatever the override.
validate_origin_failopen(ws, allow_no_origin) ==
    IF ws.access \in {"neither", "raises"}
    THEN FALSE
    ELSE IF ws.origin = Absent \/ ws.origin = ""
         THEN TRUE
         ELSE ws.origin \in ALLOWED_ORIGINS

\* validate_origin: "not origin" holds for None and for the empty string.
validate_origin(ws, allow_no_origin) ==
    IF ws.access \in {"neither", "raises"}
    THEN FALSE
    ELSE IF ws.origin = Absent \/ ws.origin = ""
         THEN allow_no_origin
         ELSE ws.origin \in ALLOWED_ORIGINS

\* handle_connection's gate with the locked() test dropped.
SlotFreeUnchecked(v) == TRUE

\* "not connection_semaphore.locked()": a slot can be taken without waiting.
SlotFree(v) == v > 0

\* str(uuid.uuid4()) of connection c: a fresh version-4 identifier.
SessionIdOf(c) == [kind |-> "v4", k |-> c]

\* The places of a connection that holds a slot of the semaphore.
Admitted == {"closing_rate", "closing_origin", "in_session"}
AdmittedConns == {c \in Conns : conn[c] \in Admitted}

\* The latest accepted rate checks of an IP, MAX_CONNECTIONS_PER_MINUTE + 1 at most.
Latest(h) ==
    IF Len(h) > MAX_CONNECTIONS_PER_MINUTE + 1 THEN SubSeq(h, 2, Len(h)) ELSE h

\* _handle_connection_inner going on to handle_client whatever the checks said.
handle_connection_inner_unchecked(rate_ok, origin_ok) == "in_session"

\* _handle_connection_inner (main.py:183-197): the rate check, then the origin
\* check, each closing the socket and returning when it fails, then
\* handle_client.  The place the connection reaches.
handle_connection_inner(rate_ok, origin_ok) ==
    IF ~rate_ok THEN "closing_rate"
    ELSE IF ~origin_ok THEN "closing_origin"
    ELSE "in_session"

\* handle_connection up to its first suspension: the gate, then (with a slot)
\* _handle_connection_inner's rate check and origin check, then handle_client's
\* create_session.  No await in between gives up control: the semaphore has a
\* free slot, validate_origin awaits nothing, the registry lock is free.
Arrive(c, ip, ws) ==
    /\ conn[c] = "idle"
    /\ IF c = 1 THEN TRUE ELSE conn[c - 1] # "idle"
    /\ UNCHANGED <<now, lastOp, ALLOW_NO_ORIGIN>>
    /\ IF ~SlotFree(sem_value)
       THEN \* websocket.close(1008, "Server at capacity...")
            /\ conn' = [conn EXCEPT ![c] = "rejected_capacity"]
            /\ lastArrival' = [ip |-> ip, ws |-> Unread]
            /\ UNCHANGED <<active_sessions, connection_attempts, sem_value,
                           active_connections, accepted_at>>
       ELSE IF sem_value = 0
       THEN \* async with connection_semaphore: acquire() suspends
            /\ conn' = [conn EXCEPT ![c] = "waiting_slot"]
            /\ lastArrival' = [ip |-> ip, ws |-> Unread]
            /\ UNCHANGED <<active_sessions, connection_attempts, sem_value,
                           active_connections, accepted_at>>
       ELSE LET rl == check_rate_limit(connection_attempts, ip, now)
                place == handle_connection_inner(rl.ok, validate_origin(ws, ALLOW_NO_ORIGIN))
            IN  /\ sem_value' = sem_value - 1
                /\ active_connections' = active_connections + 1
                /\ connection_attempts' = rl.attempts
                /\ conn' = [conn EXCEPT ![c] = place]
                /\ accepted_at' =
                       IF rl.ok
                       THEN Store(accepted_at, ip, Latest(Append(Lookup(accepted_at, ip), now)))
                       ELSE accepted_at
                /\ lastArrival' = [ip |-> ip, ws |-> IF rl.ok THEN ws ELSE Unread]
                /\ active_sessions' =
                       IF place = "in_session"
                       THEN create_session(active_sessions, SessionIdOf(c), now).reg
                       ELSE active_sessions

\* A rejected connection leaving without giving back its slot.
FinishCloseKeepingSlot(c) ==
    /\ conn[c] \in {"closing_rate", "closing_origin"}
    /\ conn' = [conn EXCEPT ![c] = "done"]
    /\ lastArrival' = NoArrival
    /\ UNCHANGED <<now, regVars, connection_attempts, ALLOW_NO_ORIGIN, accepted_at,
                   active_connections, sem_value>>

\* A rejected connection's websocket.close() completes: _handle_connection_inner
\* returns, the counter is decremented and the slot released.
FinishClose(c) ==
    /\ conn[c] \in {"closing_rate", "closing_origin"}
    /\ conn' = [conn EXCEPT ![c] = "done"]
    /\ active_connections' = active_connections - 1
    /\ sem_value' = sem_value + 1
    /\ lastArrival' = NoArrival
    /\ UNCHANGED <<now, regVars, connection_attempts, ALLOW_NO_ORIGIN, accepted_at>>

\* handle_client returning with its session left in the registry.
EndSessionKeepingEntry(c) ==
    /\ conn[c] = "in_session"
    /\ conn' = [conn EXCEPT ![c] = "done"]
    /\ active_connections' = active_connections - 1
    /\ sem_value' = sem_value + 1
    /\ lastArrival' = NoArrival
    /\ UNCHANGED <<now, regVars, connection_attempts, ALLOW_NO_ORIGIN, accepted_at>>

\* handle_client returns: cleanup_session removed the session, then the counter
\* is decremented and the slot released.
EndSession(c) ==
    /\ conn[c] = "in_session"
    /\ conn' = [conn EXCEPT ![c] = "done"]
    /\ active_sessions' = remove_session(active_sessions, SessionIdOf(c)).reg
    /\ active_connections' = active_connections - 1
    /\ sem_value' = sem_value + 1
    /\ lastArrival' = NoArrival
    /\ UNCHANGED <<now, lastOp, connection_attempts, ALLOW_NO_ORIGIN, accepted_at>>

\* One pass of the cleanup_rate_limiter loop.
Sweep ==
    /\ connection_attempts' = cleanup_rate_limiter(connection_attempts, now)
    /\ lastArrival' = NoArrival
    /\ UNCHANGED <<now, regVars, sem_value, active_connections, ALLOW_NO_ORIGIN,
                   conn, accepted_at>>

AdmMaxTime == RATE_LIMIT_WINDOW_SECONDS + 1
TickAdmission ==
    /\ now < AdmMaxTime
    /\ now' = now + 1
    /\ lastArrival' = NoArrival
    /\ UNCHANGED <<regVars, connection_attempts, sem_value, active_connections,
                   ALLOW_NO_ORIGIN, conn, accepted_at>>

InitAdmission ==
    /\ now = 0
    /\ active_sessions = <<>>
    /\ lastOp = NoOp
    /\ AdmissionAtStart
    /\ ALLOW_NO_ORIGIN \in BOOLEAN
    /\ SessionAtStart
    /\ LanesUnobserved
    /\ MODEL = PrimaryModel

NextAdmission ==
    /\ \/ TickAdmission
       \/ \E c \in Conns, ip \in IPs, ws \in Requests : Arrive(c, ip, ws)
       \/ \E c \in Conns : FinishClose(c)
       \/ \E c \in Conns : EndSession(c)
       \/ Sweep
    /\ UNCHANGED <<sessVars, laneObs, errors_sent, lockVars>>

SpecAdmission == InitAdmission /\ [][NextAdmission]_vars

\* ----------------------------------------------- claims on admission
\* The step in which connection c arrives, and how far its checks went.
ArrivalStep(c) == conn[c] = "idle" /\ conn'[c] # "idle"
RateChecked(c) == ArrivalStep(c) /\ conn'[c] \in {"closing_rate", "closing_origin", "in_session"}
OriginChecked(c) == ArrivalStep(c) /\ conn'[c] \in {"closing_origin", "in_session"}

\* C8: with threshold R and window W, an attempt of an IP is rejected exactly
\* when R attempts of that IP were accepted and the first of the latest R of
\* them is less than W old; once W has elapsed since that first one the attempt
\* is accepted.  An attempt of one IP leaves the records of the other IPs alone.
C8_RateStep(c) ==
    LET ip == lastArrival'.ip
        h  == Lookup(accepted_at, ip)
        R  == MAX_CONNECTIONS_PER_MINUTE
        inWindow == /\ Len(h) >= R
                    /\ now - h[Len(h) - R + 1] < RATE_LIMIT_WINDOW_SECONDS
    IN  RateChecked(c) =>
            /\ (conn'[c] = "closing_rate") <=> inWindow
            /\ \A other \in IPs \ {ip} :
                   /\ (other \in DOMAIN connection_attempts') <=> (other \in DOMAIN connection_attempts)
                   /\ Lookup(connection_attempts', other) = Lookup(connection_attempts, other)
C8_RateLimit == [][\A c \in Conns : C8_RateStep(c)]_vars
\* An IP's (R+1)th attempt was accepted, W or more after the first.
C8_Witness ==
    \E ip \in DOMAIN accepted_at :
        LET h == accepted_at[ip]
        IN  /\ Len(h) = MAX_CONNECTIONS_PER_MINUTE + 1
            /\ h[Len(h)] - h[1] >= RATE_LIMIT_WINDOW_SECONDS
            /\ h[Len(h)] = now

\* C9 as stated: the origin check accepts only a present Origin header that is
\* in the allow-list, or an absent header with the override enabled.
HeadersReadable(ws) == ws.access \in {"request", "request_headers"}
C9_AsStated(ws) ==
    /\ HeadersReadable(ws)
    /\ \/ ws.origin # Absent /\ ws.origin \in ALLOWED_ORIGINS
       \/ ws.origin = Absent /\ ALLOW_NO_ORIGIN
C9_OriginFailsClosed ==
    [][\A c \in Conns :
          OriginChecked(c) => ((conn'[c] = "in_session") <=> C9_AsStated(lastArrival'.ws))]_vars

\* C9 amended: the origin check accepts exactly a non-empty Origin header that
\* is in the allow-list, or an absent or empty header with the override enabled;
\* unreadable headers are rejected.
C9_Amended(ws) ==
    /\ HeadersReadable(ws)
    /\ \/ ws.origin \notin {Absent, ""} /\ ws.origin \in ALLOWED_ORIGINS
       \/ ws.origin \in {Absent, ""} /\ ALLOW_NO_ORIGIN
C9_OriginFailsClosedAmended ==
    [][\A c \in Conns :
          OriginChecked(c) => ((conn'[c] = "in_session") <=> C9_Amended(lastArrival'.ws))]_vars
\* An empty Origin header was accepted under the override.
C9_Witness ==
    /\ lastArrival.ws \in Requests
    /\ lastArrival.ws.origin = ""
    /\ ALLOW_NO_ORIGIN
    /\ \E c \in Conns : conn[c] = "in_session"

\* C10: never more than MAX_CONCURRENT_CONNECTIONS connections hold a slot, no
\* connection waits for one, and a connection that arrives while all slots are
\* held is closed at once with the capacity reason.
C10_ConcurrencyCap ==
    /\ [](/\ Cardinality(AdmittedConns) <= MAX_CONCURRENT_CONNECTIONS
          /\ \A c \in Conns : conn[c] # "waiting_slot")
    /\ [][\A c \in Conns :
             (ArrivalStep(c) /\ Cardinality(AdmittedConns) >= MAX_CONCURRENT_CONNECTIONS)
                 => conn'[c] = "rejected_capacity"]_vars
\* A connection was turned away while every slot was held.
C10_Witness ==
    /\ Cardinality(AdmittedConns) = MAX_CONCURRENT_CONNECTIONS
    /\ \E c \in Conns : conn[c] = "rejected_capacity"

\* C11: admission precedes session creation.  A connection turned away by the
\* concurrency check, the rate check or the origin check is closed without
\* create_session having run: the registry is the same before and after its
\* arrival and its close, only a connection inside handle_client ever has its
\* identifier registered, and the first failing check keeps the later ones
\* from running (no rate record after a capacity rejection, no read of the
\* Origin header after a capacity or a rate rejection).
C11_ArrivalStep(c) ==
    LET ip   == lastArrival'.ip
        free == sem_value > 0
        rl   == check_rate_limit(connection_attempts, ip, now)
    IN  ArrivalStep(c) =>
            /\ ~free =>
                   /\ conn'[c] = "rejected_capacity"
                   /\ connection_attempts' = connection_attempts
                   /\ lastArrival'.ws = Unread
            /\ (free /\ ~rl.ok) =>
                   /\ conn'[c] = "closing_rate"
                   /\ lastArrival'.ws = Unread
            /\ (free /\ rl.ok /\ ~validate_origin(lastArrival'.ws, ALLOW_NO_ORIGIN)) =>
                   conn'[c] = "closing_origin"
            /\ conn'[c] # "in_session" => active_sessions' = active_sessions
C11_CloseStep(c) ==
    (conn[c] \in {"rejected_capacity", "closing_rate", "closing_origin"}
        /\ conn'[c] # conn[c]) =>
            /\ conn'[c] = "done"
            /\ active_sessions' = active_sessions
C11_AdmissionPrecedesSession ==
    /\ [](\A c \in Conns :
             SessionIdOf(c) \in Keys(active_sessions) => conn[c] = "in_session")
    /\ [][\A c \in Conns : C11_ArrivalStep(c) /\ C11_CloseStep(c)]_vars
\* A connection from an origin outside the allow-list is being closed while
\* the registry holds exactly the session of another, admitted connection.
C11_Witness ==
    /\ lastArrival.ws \in Requests
    /\ lastArrival.ws.origin = "http://evil.example"
    /\ \E c1, c2 \in Conns :
          /\ conn[c1] = "in_session"
          /\ conn[c2] = "closing_origin"
          /\ Keys(active_sessions) = {SessionIdOf(c1)}

\* ================================================================ the relay
\* One connection inside handle_client (websocket_handler.py:489-569): the
\* upstream session is created and entered, the backstory is primed, "ready" is
\* sent, the two lanes run under handle_messages, and the connection is torn
\* down.  A step of a coroutine runs from one suspension point to the next.

\* Client messages and upstream responses handled per connection.
MaxMsgs == 2
MaxEvents == 2
\* gemini_client.py:16
MAX_RETRIES == 3

\* session_id = str(uuid.uuid4())
session_id == [kind |-> "v4", k |-> 1]

outerVars == <<now, lastOp, admVars, MODEL>>
Open == websocket = "open"
Quiet == sent' = <<>> /\ done_ev' = NoEvent

\* ------------------------------------------------------- client messages
\* websocket_handler.py:32-34 sets MAX_AUDIO_SIZE_BYTES = 10 MiB,
\* MAX_IMAGE_SIZE_BYTES = 5 MiB and MAX_TEXT_LENGTH = 100000; the model scales
\* them down.
MAX_AUDIO_SIZE_BYTES == 4
MAX_IMAGE_SIZE_BYTES == 5
MAX_TEXT_LENGTH == 3

NoField == "<missing>"
NotObject == "<not-object>"
VALID_MESSAGE_TYPES == {"audio", "image", "text", "end", "tool_response", "interrupt"}

\* The "data" of a message is named by its size: the bytes of the audio or the
\* image it encodes in base64, the characters of a text.  NoData: no "data".
NoData == -1
Sizes == 0..(MAX_IMAGE_SIZE_BYTES + 2)
Payloads == {NoData} \cup Sizes
Message(t, dt) == [parses |-> TRUE, type |-> t, data |-> dt]
\* A frame that is not JSON; JSON that is not an object; an object without
\* "type" or with an unknown one; the six types, with and without "data".
Messages ==
    {[parses |-> FALSE, type |-> NoField, data |-> NoData]}
        \cup {Message(t, NoData) : t \in {NotObject, NoField, "bogus", "interrupt", "end"}}
        \cup {Message(t, dt) : t \in {"audio", "image", "text"}, dt \in Payloads}
        \cup {Message("tool_response", dt) : dt \in {NoData, 1}}

validate_message_structure(m) ==
    /\ m.type # NotObject
    /\ m.type # NoField
    /\ m.type \in VALID_MESSAGE_TYPES
    /\ (m.type \in {"audio", "image", "text", "tool_response"} => m.data # NoData)

\* len() of the standard base64 text of n bytes: four characters per group of
\* three bytes, the last group padded.
Base64Len(n) == 4 * ((n + 2) \div 3)

\* estimated_size = len(b64) * 3 // 4
estimated_size(b64len) == (b64len * 3) \div 4

\* The size test that compares with >= instead of >.
TooLargeInclusive(type, n) ==
    CASE type = "audio" -> estimated_size(Base64Len(n)) >= MAX_AUDIO_SIZE_BYTES
      [] type = "image" -> estimated_size(Base64Len(n)) >= MAX_IMAGE_SIZE_BYTES
      [] type = "text"  -> n >= MAX_TEXT_LENGTH
      [] OTHER          -> FALSE

\* The size tests of handle_audio_input (203-204), handle_image_input (247-248)
\* and handle_text_input (284).
TooLarge(type, n) ==
    CASE type = "audio" -> estimated_size(Base64Len(n)) > MAX_AUDIO_SIZE_BYTES
      [] type = "image" -> estimated_size(Base64Len(n)) > MAX_IMAGE_SIZE_BYTES
      [] type = "text"  -> n > MAX_TEXT_LENGTH
      [] OTHER          -> FALSE

\* The call made on the upstream handle for a message: send() with or without
\* end_of_turn=True, or send_tool_response().
NoCall == [call |-> "none", type |-> "none", end_of_turn |-> FALSE]

\* Every send() leaving the turn open.
UpstreamCallOpenTurn(m) ==
    [call |-> IF m.type = "tool_response" THEN "send_tool_response" ELSE "send",
     type |-> m.type, end_of_turn |-> FALSE]

UpstreamCall(m) ==
    CASE m.type = "audio" -> [call |-> "send", type |-> "audio", end_of_turn |-> TRUE]
      [] m.type = "image" -> [call |-> "send", type |-> "image", end_of_turn |-> FALSE]
      [] m.type = "text"  -> [call |-> "send", type |-> "text", end_of_turn |-> TRUE]
      [] OTHER -> [call |-> "send_tool_response", type |-> "tool_response",
                   end_of_turn |-> FALSE]

\* The lane awaiting the upstream call made for a message of each type.
SendingAt(type) ==
    CASE type = "audio" -> "send_audio"
      [] type = "image" -> "send_image"
      [] type = "text"  -> "send_text"
      [] OTHER          -> "send_tool_response"
Sending == {"send_audio", "send_image", "send_text", "send_tool_response"}

\* Every handler resetting the interrupt flag before its upstream call.
reset_interrupt_always(type, s) == [s EXCEPT !.client_interrupted = FALSE]

\* Lines 212-214: handle_audio_input resets the interrupt flag before its
\* upstream call; the handlers of the other types have no such lines.
reset_interrupt(type, s) ==
    IF type = "audio" THEN [s EXCEPT !.client_interrupted = FALSE] ELSE s

\* What one message does up to the next suspension of the lane: the session
\* afterwards, where the lane stands, what was sent to the client and the call
\* made on the upstream handle.  json.loads raising is logged by the handler
\* of line 183 like every other exception.
Dispatch(m, s) ==
    LET stay(tags) == [session |-> s, at |-> "recv", sent |-> tags, upstream |-> NoCall]
        forward(s2) == [session |-> s2, at |-> SendingAt(m.type), sent |-> <<>>,
                        upstream |-> UpstreamCall(m)]
    IN  IF ~m.parses THEN stay(<<>>)
        ELSE IF ~validate_message_structure(m) THEN stay(<<"error:invalid_message">>)
        ELSE CASE m.type = "audio" ->
                    IF m.data = 0 THEN stay(<<>>)
                    ELSE IF TooLarge(m.type, m.data) THEN stay(<<"error:size_limit_exceeded">>)
                    ELSE forward(reset_interrupt(m.type, s))
               [] m.type \in {"image", "text"} ->
                    IF m.data = 0 THEN stay(<<>>)
                    ELSE IF TooLarge(m.type, m.data) THEN stay(<<"error:size_limit_exceeded">>)
                    ELSE forward(reset_interrupt(m.type, s))
               [] m.type = "tool_response" -> forward(reset_interrupt(m.type, s))
               [] m.type = "interrupt" ->
                    [session |-> [s EXCEPT !.client_interrupted = TRUE],
                     at |-> "recv", sent |-> <<>>, upstream |-> NoCall]
               [] OTHER -> stay(<<>>)

\* A message taken from the websocket while the upstream send made for the
\* one before is still awaited.
ClientMessageConcurrent(m) ==
    /\ c_lane.at \in {"recv"} \cup Sending
    /\ Open
    /\ session.message_count < MaxMsgs
    /\ LET s1 == [session EXCEPT !.message_count = @ + 1]
           d  == Dispatch(m, s1)
       IN  /\ active_sessions' = update_session_activity(active_sessions, session_id, now)
           /\ session' = d.session
           /\ c_lane' = [c_lane EXCEPT !.at = d.at]
           /\ sent' = d.sent
    /\ done_ev' = NoEvent
    /\ UNCHANGED <<hc, factoryVars, handle, closeCount, ready_count, websocket, g_lane,
                   response_count, todo, exc, outerVars>>

\* handle_client_messages, one message of "async for message in websocket".
ClientMessage(m) ==
    /\ c_lane.at = "recv"
    /\ Open
    /\ session.message_count < MaxMsgs
    /\ LET s1 == [session EXCEPT !.message_count = @ + 1]
           d  == Dispatch(m, s1)
       IN  /\ active_sessions' = update_session_activity(active_sessions, session_id, now)
           /\ session' = d.session
           /\ c_lane' = [c_lane EXCEPT !.at = d.at]
           /\ sent' = d.sent
    /\ done_ev' = NoEvent
    /\ UNCHANGED <<hc, factoryVars, handle, closeCount, ready_count, websocket, g_lane,
                   response_count, todo, exc, outerVars>>

\* The upstream send awaited under asyncio.wait_for returns, times out or raises.
\* Only handle_audio_input reports the timeout; every other failure is logged by
\* the per-message handler of the lane.
ClientUpstreamDone(outcome) ==
    /\ c_lane.at \in Sending
    /\ sent' = IF c_lane.at = "send_audio" /\ outcome = "timeout" /\ Open
               THEN <<"error:timeout">> ELSE <<>>
    /\ c_lane' = [c_lane EXCEPT !.at = "recv"]
    /\ done_ev' = NoEvent
    /\ UNCHANGED <<hc, factoryVars, handle, closeCount, ready_count, websocket, session, g_lane,
                   response_count, todo, exc, active_sessions, outerVars>>

\* The iteration over the websocket ends: silently after a normal close, with
\* ConnectionClosedError after an abrupt one (re-raised at line 190).  Whether
\* the text of that error holds "connection closed" depends on the library.
ClientLaneEnds(kind) ==
    /\ c_lane.at = "recv"
    /\ ~Open
    /\ c_lane' = IF websocket = "closed_abrupt"
                 THEN [at |-> "raised", kind |-> kind]
                 ELSE [at |-> "done", kind |-> "none"]
    /\ Quiet
    /\ UNCHANGED <<hc, factoryVars, handle, closeCount, ready_count, websocket, session, g_lane,
                   response_count, todo, exc, active_sessions, outerVars>>

\* The client goes away, with or without a close frame.
ClientDisconnect(how) ==
    /\ Open
    /\ hc \notin {"start", "returned"}
    /\ websocket' = how
    /\ Quiet
    /\ UNCHANGED <<hc, factoryVars, handle, closeCount, ready_count, session, c_lane, g_lane,
                   response_count, todo, exc, active_sessions, outerVars>>

\* ---------------------------------------------------- upstream responses
\* A response carries one of the fields the lane looks at.  A content event is
\* an interruption, or a model turn (possibly empty) with or without
\* turn_complete.
PartLists == {<<>>, <<"audio">>, <<"text">>, <<"audio", "text">>}
Content(i, p, t) == [field |-> "server_content", interrupted |-> i, parts |-> p,
                     turn_complete |-> t]
Responses ==
    {[field |-> f, interrupted |-> FALSE, parts |-> <<>>, turn_complete |-> FALSE] :
        f \in {"setup_complete", "tool_call", "usage_metadata", "go_away"}}
        \cup {Content(TRUE, <<>>, FALSE), Content(TRUE, <<"audio">>, TRUE)}
        \cup {Content(FALSE, p, t) : p \in PartLists, t \in BOOLEAN}

\* process_server_content forwarding although the client interrupted.
SkipContentNever(s) == FALSE

\* websocket_handler.py:414 and 425: content is skipped while the client's
\* interrupt stands.
SkipContent(s) == s.client_interrupted

Receiving(at, parts, tc) == [at |-> at, kind |-> "none", parts |-> parts, turn_complete |-> tc]
Ended(tc, fwd, n) == [content |-> TRUE, turn_complete |-> tc, forwarded |-> fwd, dropped |-> n]

\* The lane ended by the exception of one event's processing.
after_failed_send_ends(lane) == [lane EXCEPT !.at = "raised", !.kind = "closed"]

\* A websocket.send that raises inside the processing of one event is caught,
\* by process_server_content (456-458) or by the handler of the response loop
\* (389-391), and the lane goes on with the next response.
after_failed_send(lane) == lane

\* The part loop without the test of line 425: the flag looked at once per
\* event only.
ContentStepUnchecked(s, parts, tc, open) ==
    LET over(n) == [lane |-> Receiving("recv", <<>>, FALSE), sent |-> <<>>,
                    ended |-> Ended(tc, FALSE, n)]
    IN  IF parts # <<>>
        THEN IF ~open THEN over(0)
             ELSE [lane  |-> Receiving("parts", Tail(parts), tc),
                   sent  |-> <<Head(parts)>>,
                   ended |-> NoEvent]
        ELSE IF tc /\ open
             THEN [lane  |-> Receiving("turn_complete_sent", <<>>, tc),
                   sent  |-> <<"turn_complete">>,
                   ended |-> NoEvent]
             ELSE over(0)

\* process_server_content from the part loop on, up to its next websocket.send:
\* where the lane stands, what it sent, and the event if its processing ended.
\* A send on a closed websocket raises, and the function swallows it (456-458).
ContentStep(s, parts, tc, open) ==
    LET over(n) == [lane |-> Receiving("recv", <<>>, FALSE), sent |-> <<>>,
                    ended |-> Ended(tc, FALSE, n)]
        failed  == [over(0) EXCEPT !.lane = after_failed_send(@)]
    IN  IF parts # <<>>
        THEN IF SkipContent(s) THEN over(Len(parts))
             ELSE IF ~open THEN failed
             ELSE [lane  |-> Receiving("parts", Tail(parts), tc),
                   sent  |-> <<Head(parts)>>,
                   ended |-> NoEvent]
        ELSE IF tc /\ open
             THEN [lane  |-> Receiving("turn_complete_sent", <<>>, tc),
                   sent  |-> <<"turn_complete">>,
                   ended |-> NoEvent]
             ELSE over(0)

\* The flags left as they are.
Uncleared(s) == s

\* Lines 409-410 and 453-454.
Cleared(s) == [s EXCEPT !.is_receiving_response = FALSE, !.client_interrupted = FALSE]

\* handle_gemini_responses, one response of "async for response in receive()".
GeminiReceive(r) ==
    /\ g_lane.at = "recv"
    /\ response_count < MaxEvents
    /\ response_count' = response_count + 1
    /\ CASE r.field = "setup_complete" ->
              /\ sent' = IF Open THEN <<"setup_complete">> ELSE <<>>
              /\ done_ev' = NoEvent
              /\ UNCHANGED <<g_lane, session>>
         [] r.field = "server_content" /\ r.interrupted ->
              /\ sent' = IF Open THEN <<"interrupted">> ELSE <<>>
              /\ g_lane' = IF Open THEN Receiving("interrupted_sent", <<>>, FALSE)
                         ELSE after_failed_send(g_lane)
              /\ done_ev' = NoEvent
              /\ UNCHANGED session
         [] r.field = "server_content" /\ ~r.interrupted ->
              IF SkipContent(session)
              THEN /\ sent' = <<>>
                   /\ done_ev' = Ended(r.turn_complete, FALSE, Len(r.parts))
                   /\ UNCHANGED <<g_lane, session>>
              ELSE LET s1 == IF r.parts # <<>>
                             THEN [session EXCEPT !.is_receiving_response = TRUE]
                             ELSE session
                       st == ContentStep(s1, r.parts, r.turn_complete, Open)
                   IN  /\ session' = s1
                       /\ g_lane' = st.lane
                       /\ sent' = st.sent
                       /\ done_ev' = st.ended
         [] r.field = "tool_call" ->
              /\ sent' = IF Open THEN <<"tool_call">> ELSE <<>>
              /\ done_ev' = NoEvent
              /\ UNCHANGED <<g_lane, session>>
         [] r.field = "usage_metadata" ->
              /\ Quiet
              /\ UNCHANGED <<g_lane, session>>
         [] r.field = "go_away" ->
              /\ sent' = IF Open THEN <<"go_away">> ELSE <<>>
              /\ g_lane' = IF Open THEN Receiving("go_away_sent", <<>>, FALSE)
                         ELSE after_failed_send(g_lane)
              /\ done_ev' = NoEvent
              /\ UNCHANGED session
    /\ UNCHANGED <<hc, factoryVars, handle, closeCount, ready_count, websocket, c_lane, todo, exc,
                   active_sessions, outerVars>>

\* The lane resumes after a websocket.send: the flags are cleared after
\* "interrupted" (409-410) and after "turn_complete" (453-454), the part loop
\* goes on, and the break after "go_away" (387) leaves the "async for" only: the
\* enclosing "while True" (345) calls receive() again.
GeminiResume ==
    /\ g_lane.at \in {"interrupted_sent", "parts", "turn_complete_sent", "go_away_sent"}
    /\ CASE g_lane.at = "interrupted_sent" ->
              /\ session' = Cleared(session)
              /\ g_lane' = Receiving("recv", <<>>, FALSE)
              /\ Quiet
         [] g_lane.at = "turn_complete_sent" ->
              /\ session' = Cleared(session)
              /\ g_lane' = Receiving("recv", <<>>, FALSE)
              /\ sent' = <<>>
              /\ done_ev' = Ended(TRUE, TRUE, 0)
         [] g_lane.at = "parts" ->
              LET st == ContentStep(session, g_lane.parts, g_lane.turn_complete, Open)
              IN  /\ g_lane' = st.lane
                  /\ sent' = st.sent
                  /\ done_ev' = st.ended
                  /\ UNCHANGED session
         [] g_lane.at = "go_away_sent" ->
              /\ g_lane' = Receiving("recv", <<>>, FALSE)
              /\ Quiet
              /\ UNCHANGED session
    /\ UNCHANGED <<hc, factoryVars, handle, closeCount, ready_count, websocket, c_lane,
                   response_count, todo, exc, active_sessions, outerVars>>

\* receive() raises: the exception leaves the lane through its finally (393).
\* The kinds are the ones handle_messages and handle_client tell apart.
UpstreamErrors == {"closed", "quota", "timeout", "other"}
GeminiRaises(kind) ==
    /\ g_lane.at = "recv"
    /\ g_lane' = [at |-> "raised", kind |-> kind, parts |-> <<>>, turn_complete |-> FALSE]
    /\ Quiet
    /\ UNCHANGED <<hc, factoryVars, handle, closeCount, ready_count, websocket, session, c_lane,
                   response_count, todo, exc, active_sessions, outerVars>>

\* ------------------------------------------------- create_gemini_session
\* gemini_client.py:17-19
RETRY_DELAY_SECONDS == 1
RETRY_BACKOFF_MULTIPLIER == 2
MAX_JITTER_MS == 500

\* validate_model_name: membership in the list of lines 60-67.
valid_models == {PrimaryModel,
                 "models/gemini-2.0-flash-exp",
                 "models/gemini-exp-1206",
                 "models/gemini-2.0-flash"}
validate_model_name(model_name) == model_name \in valid_models

\* The configured model: the primary one, or a name without the models/ prefix.
Models == {PrimaryModel, "gemini-2.0-flash-exp"}

\* jitter = random.randint(0, MAX_JITTER_MS) / 1000: the ends and the middle.
Jitters == {0, MAX_JITTER_MS \div 2, MAX_JITTER_MS}

\* wait_time = delay + jitter, in milliseconds (delay is held in seconds).
wait_time(d, jitter_ms) == d * 1000 + jitter_ms

\* The delay left as it is after a sleep.
next_delay_constant(d) == d

\* delay *= RETRY_BACKOFF_MULTIPLIER
next_delay(d) == d * RETRY_BACKOFF_MULTIPLIER

\* A failed attempt as tries records it: its cause and the sleep that followed
\* it, NoWait if none did.
NoWait == -1
Try(cause, wait) == [cause |-> cause, wait |-> wait]

\* --------------------------------------------------------- handle_client
\* session_id = str(uuid.uuid4()); session = await create_session(session_id)
HandleClientStart ==
    /\ hc = "start"
    /\ active_sessions' = create_session(active_sessions, session_id, now).reg
    /\ hc' = "connecting"
    /\ attempt' = 1
    /\ delay' = RETRY_DELAY_SECONDS
    /\ tries' = <<>>
    /\ last_error' = "none"
    /\ Quiet
    /\ UNCHANGED <<handle, closeCount, ready_count, websocket, session, c_lane, g_lane,
                   response_count, todo, exc, outerVars>>

\* create_gemini_session, one pass of "for attempt in range(1, MAX_RETRIES + 1)".
\* The attempt raises ConfigurationError when the model name is not valid, or
\* get_sdk_client / get_gemini_config raise, or it returns the context manager.
\* Every exception is caught at line 122: before the last attempt the loop
\* sleeps delay + jitter, after it ConfigurationError reaches handle_client.
CreateGeminiSession(outcome, jitter) ==
    /\ hc = "connecting"
    /\ LET cause == IF ~validate_model_name(MODEL) THEN "invalid_model" ELSE outcome
       IN  IF cause = "ok"
           THEN /\ hc' = "entering"
                /\ UNCHANGED <<exc, tries, last_error>>
           ELSE /\ last_error' = cause
                /\ IF attempt < MAX_RETRIES
                   THEN /\ tries' = Append(tries, Try(cause, wait_time(delay, jitter)))
                        /\ hc' = "backoff"
                        /\ exc' = exc
                   ELSE /\ tries' = Append(tries, Try(cause, NoWait))
                        /\ hc' = "except"
                        /\ exc' = "configuration"
    /\ Quiet
    /\ UNCHANGED <<attempt, delay, handle, closeCount, ready_count, websocket, session,
                   c_lane, g_lane, response_count, todo, active_sessions, outerVars>>

\* await asyncio.sleep(wait_time) returns; delay *= RETRY_BACKOFF_MULTIPLIER and
\* the loop goes to the next attempt.
Backoff ==
    /\ hc = "backoff"
    /\ attempt' = attempt + 1
    /\ delay' = next_delay(delay)
    /\ hc' = "connecting"
    /\ Quiet
    /\ UNCHANGED <<tries, last_error, handle, closeCount, ready_count, websocket, session,
                   c_lane, g_lane, response_count, todo, exc, active_sessions, outerVars>>

\* The locals of create_gemini_session are gone once handle_client goes on.
FactoryGone ==
    /\ attempt' = 0
    /\ delay' = 0
    /\ tries' = <<>>
    /\ last_error' = "none"

\* async with gemini_session_context as gemini_session: the connection is made
\* on entry, or entering raises.
EnterSession(outcome) ==
    /\ hc = "entering"
    /\ IF outcome = "ok"
       THEN handle' = "open" /\ hc' = "priming" /\ exc' = exc
       ELSE handle' = handle /\ hc' = "except" /\ exc' = outcome
    /\ FactoryGone
    /\ Quiet
    /\ UNCHANGED <<closeCount, ready_count, websocket, session, c_lane, g_lane,
                   response_count, todo, active_sessions, outerVars>>

\* get_backstory_for_kv_cache() reads the backstory file at each call; with a
\* backstory the priming send is issued.
Prime(backstory) ==
    /\ hc = "priming"
    /\ hc' = IF backstory THEN "prime_send" ELSE "ready"
    /\ Quiet
    /\ UNCHANGED <<factoryVars, handle, closeCount, ready_count, websocket, session, c_lane, g_lane,
                   response_count, todo, exc, active_sessions, outerVars>>

\* The priming send returns, times out or raises; failures are logged (528-529).
PrimeSent(outcome) ==
    /\ hc = "prime_send"
    /\ hc' = IF outcome = "ok" THEN "prime_recv" ELSE "ready"
    /\ Quiet
    /\ UNCHANGED <<factoryVars, handle, closeCount, ready_count, websocket, session, c_lane, g_lane,
                   response_count, todo, exc, active_sessions, outerVars>>

\* The priming receive loop ends at the first content event, when receive() is
\* exhausted, or when it raises.
PrimeReceived ==
    /\ hc = "prime_recv"
    /\ hc' = "ready"
    /\ Quiet
    /\ UNCHANGED <<factoryVars, handle, closeCount, ready_count, websocket, session, c_lane, g_lane,
                   response_count, todo, exc, active_sessions, outerVars>>

\* handle_messages entered without the ready signal.
SendReadySkipped(kind) ==
    /\ hc = "ready"
    /\ hc' = "pump"
    /\ c_lane' = [at |-> "recv", kind |-> "none"]
    /\ g_lane' = [at |-> "recv", kind |-> "none", parts |-> <<>>, turn_complete |-> FALSE]
    /\ Quiet
    /\ UNCHANGED <<factoryVars, handle, closeCount, ready_count, websocket, session,
                   response_count, todo, exc, active_sessions, outerVars>>

\* await websocket.send({"ready": true}), then handle_messages starts both
\* tasks.  On a closed websocket the send raises and leaves the "async with".
SendReady(kind) ==
    /\ hc = "ready"
    /\ IF Open
       THEN /\ sent' = <<"ready">>
            /\ hc' = "pump"
            /\ c_lane' = [at |-> "recv", kind |-> "none"]
            /\ g_lane' = Receiving("recv", <<>>, FALSE)
            /\ exc' = exc
       ELSE /\ sent' = <<>>
            /\ hc' = "exit_with"
            /\ exc' = kind
            /\ UNCHANGED <<c_lane, g_lane>>
    /\ ready_count' = IF Open THEN ready_count + 1 ELSE ready_count
    /\ done_ev' = NoEvent
    /\ UNCHANGED <<factoryVars, handle, closeCount, websocket, session,
                   response_count, todo, active_sessions, outerVars>>

\* -------------------------------------------------------- handle_messages
Finished(lane) == lane.at \in {"done", "raised", "cancelled"}
LaneOf(t) == IF t = "client" THEN [at |-> c_lane.at, kind |-> c_lane.kind]
             ELSE [at |-> g_lane.at, kind |-> g_lane.kind]

\* asyncio.wait(FIRST_COMPLETED) returns: done holds every task finished by the
\* time the coroutine resumes.
PumpWake ==
    /\ hc = "pump"
    /\ Finished(c_lane) \/ Finished(g_lane)
    /\ todo' = {t \in {"client", "gemini"} : Finished(LaneOf(t))}
    /\ hc' = "inspect"
    /\ Quiet
    /\ UNCHANGED <<factoryVars, handle, closeCount, ready_count, websocket, session, c_lane, g_lane,
                   response_count, exc, active_sessions, outerVars>>

\* The finally of handle_messages leaving the upstream lane alone.
CancelGeminiNever == g_lane

\* The finally of handle_messages leaving the client lane alone.
CancelClientNever == c_lane

\* task.cancel() on every task not done (lines 129-137).
CancelClient == IF Finished(c_lane) THEN c_lane ELSE [at |-> "cancelled", kind |-> "none"]
CancelGemini == IF Finished(g_lane) THEN g_lane
                ELSE [at |-> "cancelled", kind |-> "none", parts |-> <<>>,
                      turn_complete |-> FALSE]

\* The exception of a done task is raised out of handle_messages unless its
\* text tells of a quota (113) or of a closed connection (125).
is_fatal_always(kind) == TRUE
is_fatal_never(kind) == FALSE
is_fatal(kind) == kind \notin {"quota", "closed"}

\* handle_messages reporting a quota.
quota_reply_none(kind) == <<>>
quota_reply(kind) == IF kind = "quota" THEN <<"error:quota_exceeded">> ELSE <<>>

\* "for task in done" looks at one task, in the iteration order of the set: a
\* quota error is reported to the client, a closed connection is ignored, any
\* other exception is raised through the finally.
PumpInspect(t) ==
    /\ hc = "inspect"
    /\ t \in todo
    /\ LET l == LaneOf(t)
           fatal == l.at = "raised" /\ is_fatal(l.kind)
       IN  /\ sent' = IF l.at = "raised" /\ Open THEN quota_reply(l.kind) ELSE <<>>
           /\ IF fatal
              THEN /\ exc' = l.kind
                   /\ todo' = {}
                   /\ c_lane' = CancelClient
                   /\ g_lane' = CancelGemini
                   /\ hc' = "exit_with"
              ELSE /\ todo' = todo \ {t}
                   /\ UNCHANGED <<exc, c_lane, g_lane, hc>>
    /\ done_ev' = NoEvent
    /\ UNCHANGED <<factoryVars, handle, closeCount, ready_count, websocket, session,
                   response_count, active_sessions, outerVars>>

\* The loop over done is over: the finally cancels what is pending.
PumpFinally ==
    /\ hc = "inspect"
    /\ todo = {}
    /\ c_lane' = CancelClient
    /\ g_lane' = CancelGemini
    /\ hc' = "exit_with"
    /\ Quiet
    /\ UNCHANGED <<factoryVars, handle, closeCount, ready_count, websocket, session,
                   response_count, todo, exc, active_sessions, outerVars>>

\* ---------------------------------------------------------------- teardown
\* Leaving "async with": the upstream session is closed.
ExitWith ==
    /\ hc = "exit_with"
    /\ handle' = "closed"
    /\ closeCount' = closeCount + 1
    /\ hc' = IF exc = "none" THEN "finally" ELSE "except"
    /\ Quiet
    /\ UNCHANGED <<factoryVars, ready_count, websocket, session, c_lane, g_lane,
                   response_count, todo, exc, active_sessions, outerVars>>

\* except asyncio.TimeoutError (539) and except Exception (549): an error
\* message is tried unless the text of the exception holds "connection closed".
handle_client_reply_none(kind) == <<>>

\* The error message each except clause of handle_client tries to send.
handle_client_reply(kind) ==
    IF kind = "closed" THEN <<>>
    ELSE IF kind = "timeout" THEN <<"error:timeout">>
    ELSE <<"error:general">>

Except ==
    /\ hc = "except"
    /\ sent' = IF Open THEN handle_client_reply(exc) ELSE <<>>
    /\ hc' = "finally"
    /\ FactoryGone
    /\ done_ev' = NoEvent
    /\ UNCHANGED <<handle, closeCount, ready_count, websocket, session, c_lane, g_lane,
                   response_count, todo, exc, active_sessions, outerVars>>

\* finally: await websocket.close()
Finally ==
    /\ hc = "finally"
    /\ websocket' = IF Open THEN "closed_by_server" ELSE websocket
    /\ hc' = "cleanup"
    /\ Quiet
    /\ UNCHANGED <<factoryVars, handle, closeCount, ready_count, session, c_lane, g_lane,
                   response_count, todo, exc, active_sessions, outerVars>>

\* cleanup_session that leaves the registry alone.
cleanup_session_skip(reg, s, id) == reg

\* cleanup_session: "if session:" holds for every SessionState object.
cleanup_session(reg, s, id) ==
    IF s # None THEN remove_session(reg, id).reg ELSE reg

Cleanup ==
    /\ hc = "cleanup"
    /\ active_sessions' = cleanup_session(active_sessions, session, session_id)
    /\ hc' = "returned"
    /\ Quiet
    /\ UNCHANGED <<factoryVars, handle, closeCount, ready_count, websocket, session, c_lane, g_lane,
                   response_count, todo, exc, outerVars>>

\* Another connection's handle_client registers its own session (493-494).
\* uuid4 identifiers are fresh: none is in the registry when it is drawn, and
\* the model draws them in order.
OtherIds == ValidIds \ {session_id}
OtherClient(id) ==
    /\ hc # "start"
    /\ id \notin Keys(active_sessions)
    /\ \A o \in OtherIds : o.k < id.k => o \in Keys(active_sessions)
    /\ active_sessions' = create_session(active_sessions, id, now).reg
    /\ Quiet
    /\ UNCHANGED <<hc, factoryVars, handle, closeCount, ready_count, websocket, session, c_lane, g_lane,
                   response_count, todo, exc, outerVars>>

\* The error messages among tags that come from handle_messages (116-120) or
\* from the handlers of handle_client (542-545, 555-558), standing at pc: the
\* quota and the general message are theirs only, the timeout message is the
\* client lane's unless handle_client is in its handler.
ErrorsOfTeardown(tags, pc) ==
    Cardinality({i \in 1..Len(tags) :
                    \/ tags[i] \in {"error:quota_exceeded", "error:general"}
                    \/ tags[i] = "error:timeout" /\ pc = "except"})

\* The count of these messages follows what the step sent; the lanes are not
\* observed here.
Counted ==
    /\ errors_sent' = errors_sent + ErrorsOfTeardown(sent', hc)
    /\ UNCHANGED <<laneObs, lockVars>>

Init ==
    /\ now = 0
    /\ active_sessions = <<>>
    /\ lastOp = NoOp
    /\ AdmissionAtStart
    /\ ALLOW_NO_ORIGIN = FALSE
    /\ SessionAtStart
    /\ LanesUnobserved
    /\ MODEL \in Models

Next ==
    /\ \/ HandleClientStart
       \/ \E outcome \in {"ok", "client_error", "config_error"}, jitter \in Jitters :
              CreateGeminiSession(outcome, jitter)
       \/ Backoff
       \/ \E outcome \in {"ok", "timeout", "other"} : EnterSession(outcome)
       \/ \E backstory \in BOOLEAN : Prime(backstory)
       \/ \E outcome \in {"ok", "timeout", "error"} : PrimeSent(outcome)
       \/ PrimeReceived
       \/ \E kind \in {"closed", "other"} : SendReady(kind)
       \/ \E m \in Messages : ClientMessage(m)
       \/ \E outcome \in {"ok", "timeout", "error"} : ClientUpstreamDone(outcome)
       \/ \E kind \in {"closed", "other"} : ClientLaneEnds(kind)
       \/ \E how \in {"closed_ok", "closed_abrupt"} : ClientDisconnect(how)
       \/ \E r \in Responses : GeminiReceive(r)
       \/ GeminiResume
       \/ \E kind \in UpstreamErrors : GeminiRaises(kind)
       \/ PumpWake
       \/ \E t \in {"client", "gemini"} : PumpInspect(t)
       \/ PumpFinally
       \/ ExitWith
       \/ Except
       \/ Finally
       \/ Cleanup
       \/ \E id \in OtherIds : OtherClient(id)
    /\ Counted

Spec == Init /\ [][Next]_vars

\* What the event loop guarantees once a coroutine can go on: the steps of
\* handle_client and handle_messages, the sends awaited under asyncio.wait_for
\* (510-513, 218-224), the end of the iteration over a closed websocket, a send
\* to the client returning, and a cancellation being delivered.  Nothing makes
\* the client or the upstream speak: the receive loop of the priming (518) and
\* the receive() of the upstream lane (346) wait without a timeout.
Fairness ==
    /\ WF_vars(HandleClientStart /\ Counted)
    /\ WF_vars((\E outcome \in {"ok", "client_error", "config_error"}, jitter \in Jitters :
                   CreateGeminiSession(outcome, jitter)) /\ Counted)
    /\ WF_vars(Backoff /\ Counted)
    /\ WF_vars((\E outcome \in {"ok", "timeout", "other"} : EnterSession(outcome)) /\ Counted)
    /\ WF_vars((\E backstory \in BOOLEAN : Prime(backstory)) /\ Counted)
    /\ WF_vars((\E outcome \in {"ok", "timeout", "error"} : PrimeSent(outcome)) /\ Counted)
    /\ WF_vars((\E kind \in {"closed", "other"} : SendReady(kind)) /\ Counted)
    /\ WF_vars((\E outcome \in {"ok", "timeout", "error"} : ClientUpstreamDone(outcome)) /\ Counted)
    /\ WF_vars((\E kind \in {"closed", "other"} : ClientLaneEnds(kind)) /\ Counted)
    /\ WF_vars(GeminiResume /\ Counted)
    /\ WF_vars(PumpWake /\ Counted)
    /\ WF_vars((\E t \in {"client", "gemini"} : PumpInspect(t)) /\ Counted)
    /\ WF_vars(PumpFinally /\ Counted)
    /\ WF_vars(ExitWith /\ Counted)
    /\ WF_vars(Except /\ Counted)
    /\ WF_vars(Finally /\ Counted)
    /\ WF_vars(Cleanup /\ Counted)

SpecLive == Init /\ [][Next]_vars /\ Fairness

\* ------------------------------------------------------------- the lanes
\* The two lanes of one session from the moment handle_messages has started
\* them (after the ready signal, websocket_handler.py:547-552), observed: what
\* the client lane handled in each step, the latest call it made on the
\* upstream handle, and what each upstream event delivered to the client.
InitLanes ==
    /\ now = 0
    /\ active_sessions = create_session(<<>>, session_id, 0).reg
    /\ lastOp = NoOp
    /\ AdmissionAtStart
    /\ ALLOW_NO_ORIGIN = FALSE
    /\ MODEL = PrimaryModel
    /\ hc = "pump"
    /\ attempt = 0
    /\ delay = 0
    /\ tries = <<>>
    /\ last_error = "none"
    /\ ready_count = 1
    /\ handle = "open"
    /\ closeCount = 0
    /\ websocket = "open"
    /\ session = NewSessionState
    /\ c_lane = [at |-> "recv", kind |-> "none"]
    /\ g_lane = Receiving("recv", <<>>, FALSE)
    /\ response_count = 0
    /\ todo = {}
    /\ exc = "none"
    /\ sent = <<"ready">>
    /\ done_ev = NoEvent
    /\ LanesUnobserved

Handled(m) == [what |-> "message", msg |-> m, at |-> "recv", outcome |-> "none"]
SendDone(at, outcome) == [what |-> "send_done", msg |-> NoMessage, at |-> at,
                          outcome |-> outcome]

LaneStep ==
    \/ \E m \in Messages :
           /\ ClientMessage(m)
           /\ lane_ev' = Handled(m)
           /\ upstream' = IF Dispatch(m, session).upstream = NoCall THEN upstream
                           ELSE Dispatch(m, session).upstream
           /\ UNCHANGED turn
    \/ \E outcome \in {"ok", "timeout", "error"} :
           /\ ClientUpstreamDone(outcome)
           /\ lane_ev' = SendDone(c_lane.at, outcome)
           /\ UNCHANGED <<upstream, turn>>
    \/ \E kind \in {"closed", "other"} :
           /\ ClientLaneEnds(kind)
           /\ lane_ev' = NoLaneEvent
           /\ UNCHANGED <<upstream, turn>>
    \/ \E how \in {"closed_ok", "closed_abrupt"} :
           /\ ClientDisconnect(how)
           /\ lane_ev' = NoLaneEvent
           /\ UNCHANGED <<upstream, turn>>
    \/ \E r \in Responses :
           /\ GeminiReceive(r)
           /\ lane_ev' = NoLaneEvent
           /\ turn' = [event |-> r, delivered |-> sent']
           /\ UNCHANGED upstream
    \/ /\ GeminiResume
       /\ lane_ev' = NoLaneEvent
       /\ turn' = [turn EXCEPT !.delivered = @ \o sent']
       /\ UNCHANGED upstream
    \/ \E kind \in UpstreamErrors :
           /\ GeminiRaises(kind)
           /\ lane_ev' = NoLaneEvent
           /\ UNCHANGED <<upstream, turn>>

NextLanes == LaneStep /\ UNCHANGED <<errors_sent, lockVars>>

SpecLanes == InitLanes /\ [][NextLanes]_vars

\* ------------------------------------------------- the lanes and the sweep
\* The session from the start of its lanes to its end, the upstream service
\* staying silent, while time passes and the background task of main.py:261
\* sweeps the registry.
NextReaper ==
    \/ /\ \/ \E m \in Messages : ClientMessage(m)
          \/ \E outcome \in {"ok", "timeout", "error"} : ClientUpstreamDone(outcome)
          \/ \E kind \in {"closed", "other"} : ClientLaneEnds(kind)
          \/ \E how \in {"closed_ok", "closed_abrupt"} : ClientDisconnect(how)
          \/ PumpWake
          \/ \E t \in {"client", "gemini"} : PumpInspect(t)
          \/ PumpFinally
          \/ ExitWith
          \/ Except
          \/ Finally
          \/ Cleanup
       /\ Counted
    \/ /\ Tick \/ CleanupTimedOutSessions
       /\ UNCHANGED <<sessVars, laneObs, errors_sent, lockVars>>

SpecReaper == InitLanes /\ [][NextReaper]_vars

\* ------------------------------------------------- the registry lock
\* The statements of handle_client that matter to _session_lock, each with the
\* statements that can follow it: "acquire" and "release" are the ends of an
\* "async with _session_lock" block, "sync" is code without an await, "await" is
\* a wait for the socket or the upstream service.
handle_client_code ==
    << [op |-> "sync",    next |-> {2, 16}],   \* session.py:56-59, may raise
       [op |-> "acquire", next |-> {3}],       \* session.py:61, from line 494
       [op |-> "sync",    next |-> {4}],       \* session.py:62-77
       [op |-> "release", next |-> {5}],
       [op |-> "await",   next |-> {6, 12}],   \* lines 499-533, upstream and ready
       [op |-> "await",   next |-> {7, 12}],   \* line 146, the next client message
       [op |-> "acquire", next |-> {8}],       \* session.py:95, from line 148
       [op |-> "sync",    next |-> {9}],       \* session.py:96-98
       [op |-> "release", next |-> {10}],
       [op |-> "sync",    next |-> {6, 11}],   \* lines 150-172, parse and dispatch
       [op |-> "await",   next |-> {6, 12}],   \* the send of a handler
       [op |-> "await",   next |-> {13}],      \* line 565, websocket.close()
       [op |-> "acquire", next |-> {14}],      \* session.py:88, from line 81
       [op |-> "sync",    next |-> {15}],      \* session.py:89-90
       [op |-> "release", next |-> {16}],
       [op |-> "end",     next |-> {}] >>

\* session.py:112-150: the sweep collects the timed-out sessions under the lock
\* and removes each of them after it has left the block.
cleanup_timed_out_sessions_code ==
    << [op |-> "await",   next |-> {2}],       \* session.py:119, the sleep
       [op |-> "acquire", next |-> {3}],       \* session.py:124
       [op |-> "sync",    next |-> {4}],       \* session.py:125-129
       [op |-> "release", next |-> {1, 5}],    \* the end of the block; line 132
       [op |-> "acquire", next |-> {6}],       \* session.py:88, from line 144
       [op |-> "sync",    next |-> {7}],       \* session.py:89-90
       [op |-> "release", next |-> {1, 5}] >>  \* session.py:90; line 135 loops

\* A sweep that removed the sessions inside its block.
StmtRemovingUnderLock(u) ==
    LET code == IF u = "sweep"
                THEN << [op |-> "await",   next |-> {2}],
                        [op |-> "acquire", next |-> {3}],
                        [op |-> "sync",    next |-> {4}],
                        [op |-> "acquire", next |-> {5}],
                        [op |-> "sync",    next |-> {6}],
                        [op |-> "release", next |-> {7}],
                        [op |-> "release", next |-> {1}] >>
                ELSE handle_client_code
    IN  IF unit_at[u] = 0 THEN [op |-> "await", next |-> {1}] ELSE code[unit_at[u]]

\* The statement a unit of work stands at; a task that was created and has not
\* run yet waits for the event loop.
Stmt(u) ==
    LET code == IF u = "sweep" THEN cleanup_timed_out_sessions_code
                ELSE handle_client_code
    IN  IF unit_at[u] = 0 THEN [op |-> "await", next |-> {1}] ELSE code[unit_at[u]]

\* The event loop resumes a suspended unit of work: one whose await is over, or
\* one that waited for the lock, now free.
Resume(u) ==
    /\ running = "none"
    /\ \/ Stmt(u).op = "await"
       \/ Stmt(u).op = "acquire" /\ session_lock = "free"
    /\ running' = u
    /\ \E n \in (IF Stmt(u).op = "await" THEN Stmt(u).next ELSE {unit_at[u]}) :
           unit_at' = [unit_at EXCEPT ![u] = n]
    /\ UNCHANGED session_lock

\* The running unit of work executes its statement. It gives up the event loop
\* at an await, at the acquire of a held lock (asyncio.Lock is not reentrant)
\* and at its end.
Exec(u) ==
    /\ running = u
    /\ LET s == Stmt(u)
           suspends == \/ s.op \in {"await", "end"}
                       \/ s.op = "acquire" /\ session_lock # "free"
       IN  /\ running' = IF suspends THEN "none" ELSE u
           /\ session_lock' = IF s.op = "acquire" /\ ~suspends THEN u
                              ELSE IF s.op = "release" THEN "free"
                              ELSE session_lock
           /\ IF suspends THEN UNCHANGED unit_at
              ELSE \E n \in s.next : unit_at' = [unit_at EXCEPT ![u] = n]

NextLock ==
    /\ \/ \E u \in Units : Resume(u)
       \/ \E u \in Units : Exec(u)
    /\ UNCHANGED <<now, regVars, admVars, sessVars, laneObs, errors_sent>>

SpecLock == InitRegistry /\ [][NextLock]_vars

\* ------------------------------------------------- claims on the relay
\* C1: teardown guarantee.  The upstream handle is never closed twice, and once
\* handle_client has returned after the handle was acquired, the handle has
\* been closed exactly once and the session identifier is absent from the
\* registry, whichever way the connection ended.
C1_TeardownGuarantee ==
    /\ closeCount <= 1
    /\ handle = "open" => closeCount = 0
    /\ (hc = "returned" /\ handle # "none") =>
           /\ handle = "closed"
           /\ closeCount = 1
           /\ session_id \notin Keys(active_sessions)

\* handle_client has returned after the upstream lane raised a fatal error with
\* the handle acquired and the client lane was cancelled.
C1_Witness ==
    /\ hc = "returned"
    /\ handle = "closed"
    /\ closeCount = 1
    /\ exc = "other"
    /\ g_lane.at = "raised"
    /\ c_lane.at = "cancelled"

\* C2: interrupt suppression.  From a state in which the client-interrupt flag
\* is set no step hands an audio or a text message to the client websocket, and
\* a content event that arrives while the flag is set ends with nothing of it
\* forwarded; audio or text is sent only from states where the flag is clear.
HasContent(tags) == \E i \in 1..Len(tags) : tags[i] \in {"audio", "text"}
C2_InterruptSuppression ==
    [][/\ session.client_interrupted => ~HasContent(sent')
       /\ (session.client_interrupted /\ g_lane.at = "recv"
             /\ response_count' # response_count) =>
              (g_lane'.at \in {"recv", "interrupted_sent", "go_away_sent"}
                 /\ ~done_ev'.forwarded)]_vars

\* The parts of a content event were dropped while the flag was set and the
\* client was still connected.
C2_Witness ==
    /\ session.client_interrupted
    /\ done_ev.content
    /\ done_ev.dropped > 0
    /\ websocket = "open"

\* C3: every content event with turn_complete=true, the client connected, ends
\* with a turn_complete notification forwarded and with both the
\* receiving-response flag and the client-interrupt flag cleared.
C3_TurnCompleteUnconditional ==
    (done_ev.content /\ done_ev.turn_complete /\ websocket = "open") =>
        /\ done_ev.forwarded
        /\ ~session.client_interrupted
        /\ ~session.is_receiving_response

\* C4: after the go_away notification was sent the upstream-to-client lane
\* leaves its loop: its next step ends the lane, it does not go back to
\* receive().
C4_GoAwayTerminatesLane ==
    [][(g_lane.at = "go_away_sent" /\ g_lane'.at # "go_away_sent") =>
           g_lane'.at \in {"done", "cancelled"}]_vars

\* ------------------------------------------- claims on the session factory
\* C12: an attempt of create_gemini_session that fails the model-name
\* precondition is the only attempt: the factory raises at once, without a
\* sleep and without a further attempt.
C12_PreconditionNotRetried ==
    [][(hc = "connecting" /\ ~validate_model_name(MODEL) /\ hc' # hc) =>
           /\ hc' = "except"
           /\ attempt = 1
           /\ \A i \in 1..Len(tries') : tries'[i].wait = NoWait]_vars

\* C13: bounded retry with backoff.  Never more than MAX_RETRIES attempts; when
\* the factory returns on attempt N, N - 1 attempts failed and each of them was
\* followed by a sleep; when it gives up, MAX_RETRIES attempts failed and no
\* sleep followed the last one; the sleeps never get shorter, whatever the
\* jitter.
C13_InFactory == hc \in {"connecting", "backoff", "entering"}
                     \/ (hc = "except" /\ exc = "configuration")
C13_BoundedRetry ==
    /\ attempt <= MAX_RETRIES
    /\ Len(tries) <= MAX_RETRIES
    /\ C13_InFactory =>
           /\ Len(tries) = IF hc \in {"connecting", "entering"} THEN attempt - 1 ELSE attempt
           /\ \A i \in 1..Len(tries) : (tries[i].wait # NoWait) <=> (i < MAX_RETRIES)
           /\ \A i, j \in 1..Len(tries) :
                  (i < j /\ tries[j].wait # NoWait) => tries[i].wait <= tries[j].wait
\* The factory returned on its last attempt, the first sleep with the largest
\* jitter and the second with none.
C13_Witness ==
    /\ hc = "entering"
    /\ attempt = MAX_RETRIES
    /\ Len(tries) = MAX_RETRIES - 1
    /\ tries[1].wait = wait_time(RETRY_DELAY_SECONDS, MAX_JITTER_MS)
    /\ tries[2].wait = wait_time(next_delay(RETRY_DELAY_SECONDS), 0)

\* C14: when every attempt failed, one ConfigurationError carrying the cause of
\* the last failure reaches handle_client; the session then ends without an
\* upstream handle, without the ready signal and without the lanes, with one
\* error message (general) tried on the client websocket and nothing else sent,
\* the websocket closed and the session removed from the registry.
C14_Exhausted == exc = "configuration"
C14_RetriesExhausted ==
    /\ [](C14_Exhausted =>
             /\ hc \in {"except", "finally", "cleanup", "returned"}
             /\ handle = "none" /\ closeCount = 0
             /\ ready_count = 0
             /\ c_lane.at = "off" /\ g_lane.at = "off"
             /\ hc = "except" =>
                    /\ Len(tries) = MAX_RETRIES
                    /\ last_error = tries[MAX_RETRIES].cause
                    /\ last_error # "ok"
             /\ hc \in {"cleanup", "returned"} => websocket # "open"
             /\ hc = "returned" => session_id \notin Keys(active_sessions))
    /\ [][C14_Exhausted' =>
             sent' = IF hc = "except" /\ hc' = "finally" /\ Open
                     THEN <<"error:general">> ELSE <<>>]_vars
\* handle_client has returned after the retries were exhausted, the client
\* still connected when the error message was sent.
C14_Witness ==
    /\ C14_Exhausted
    /\ hc = "returned"
    /\ websocket = "closed_by_server"
    /\ MODEL \in valid_models


\* ------------------------------------------------------- client lane claims
\* C15: every inbound message that is malformed JSON or fails structural
\* validation is answered with one error notification whose error_type is
\* invalid_message, makes no call on the upstream handle, and leaves the lane
\* receiving.  (Violated: a frame that is not JSON is only logged.)
C15_Invalid(m) == ~m.parses \/ ~validate_message_structure(m)
C15_InvalidInputContained ==
    lane_ev.what = "message" /\ C15_Invalid(lane_ev.msg)
        => /\ sent = <<"error:invalid_message">>
           /\ c_lane.at = "recv"

\* C16: a timed-out upstream send of an audio, image or text message is
\* reported to the client with error_type timeout, and the lane goes on
\* receiving in a session that is still up.  (Violated: only the audio handler
\* reports the timeout.)
C16_TimedOut ==
    /\ lane_ev.what = "send_done"
    /\ lane_ev.outcome = "timeout"
    /\ lane_ev.at \in {"send_audio", "send_image", "send_text"}
    /\ Open
C16_TimeoutContained ==
    C16_TimedOut => /\ sent = <<"error:timeout">>
                    /\ c_lane.at = "recv"
                    /\ hc = "pump"


\* C17 as stated: an audio, image or text message whose payload exceeds the
\* cap of its type is answered with exactly one size_limit_exceeded error,
\* makes no upstream call and leaves the lane receiving; a payload at or below
\* the cap is forwarded.  (Violated: an empty payload is dropped, and the
\* estimate made from the base64 length exceeds the cap for payloads at it.)
C17_Sized == /\ lane_ev.what = "message"
             /\ lane_ev.msg.parses
             /\ lane_ev.msg.type \in {"audio", "image", "text"}
             /\ lane_ev.msg.data # NoData
C17_Cap(type) ==
    CASE type = "audio" -> MAX_AUDIO_SIZE_BYTES
      [] type = "image" -> MAX_IMAGE_SIZE_BYTES
      [] OTHER          -> MAX_TEXT_LENGTH
C17_Rejected == sent = <<"error:size_limit_exceeded">> /\ c_lane.at = "recv"
C17_Forwarded == /\ sent = <<>>
                 /\ c_lane.at = SendingAt(lane_ev.msg.type)
                 /\ upstream.type = lane_ev.msg.type
C17_PayloadCap ==
    C17_Sized => IF lane_ev.msg.data > C17_Cap(lane_ev.msg.type)
                 THEN C17_Rejected ELSE C17_Forwarded

\* C17, amended: the size compared with the cap is, for audio and image, the
\* estimate len(base64) * 3 // 4 (the payload rounded up to whole groups of
\* three bytes), and for text its length.  A message whose size so measured
\* exceeds the cap is answered with exactly one size_limit_exceeded error,
\* makes no upstream call and leaves the lane receiving; a non-empty one at or
\* below the cap is forwarded; an empty one is dropped without any message.
C17_Measured(type, n) == IF type = "text" THEN n ELSE 3 * ((n + 2) \div 3)
C17_Dropped == sent = <<>> /\ c_lane.at = "recv"
C17_EstimatedSizeCap ==
    C17_Sized =>
        LET type == lane_ev.msg.type
            n    == lane_ev.msg.data
        IN  IF n = 0 THEN C17_Dropped
            ELSE IF C17_Measured(type, n) > C17_Cap(type) THEN C17_Rejected
            ELSE C17_Forwarded
C17_Witness ==
    /\ lane_ev = Handled(Message("image", MAX_IMAGE_SIZE_BYTES))
    /\ sent = <<"error:size_limit_exceeded">>
    /\ c_lane.at = "recv"


\* ---------------------------------------------------- ready and the pump
\* C18: the ready signal is sent once in a session that has its upstream
\* handle, after priming and before either lane has started: while it has not
\* been sent no lane runs, no client message has been taken and no upstream
\* event forwarded, and it is never sent a second time.
C18_Priming == {"priming", "prime_send", "prime_recv"}
C18_PastReady == {"pump", "inspect"}
C18_ReadyOnce ==
    /\ [](/\ ready_count <= 1
          /\ (c_lane.at # "off" \/ g_lane.at # "off") => ready_count = 1
          /\ hc \in C18_PastReady => ready_count = 1 /\ handle = "open"
          /\ ready_count = 0 => /\ session.message_count = 0
                                /\ response_count = 0
                                /\ \A i \in 1..Len(sent) :
                                       sent[i] \in {"error:general", "error:timeout"})
    /\ [][/\ ready_count' # ready_count =>
                /\ hc = "ready" /\ hc' = "pump"
                /\ handle = "open"
                /\ c_lane.at = "off" /\ g_lane.at = "off"
                /\ sent' = <<"ready">>
          /\ hc' = "ready" /\ hc # "ready" => hc \in C18_Priming
          /\ hc = "ready" /\ hc' # "ready" /\ Open => ready_count' = 1
          /\ "ready" \in {sent'[i] : i \in 1..Len(sent')} => ready_count' # ready_count]_vars
\* The signal has just been sent after the priming exchange, the lanes started.
C18_Witness ==
    /\ sent = <<"ready">>
    /\ ready_count = 1
    /\ hc = "pump"
    /\ c_lane.at = "recv" /\ g_lane.at = "recv"
    /\ session.message_count = 0 /\ response_count = 0

\* C20: the pump goes on as soon as one lane has finished, whatever the other
\* does; it leaves only after a lane has finished and with the other one
\* cancelled, so that once handle_messages is over neither lane is running.
C20_InPump == hc \in {"pump", "inspect"}
C20_TerminationCoupling ==
    /\ [](/\ hc = "pump" /\ (Finished(c_lane) \/ Finished(g_lane)) => ENABLED PumpWake
          /\ hc = "inspect" => ENABLED (PumpFinally \/ \E t \in todo : PumpInspect(t))
          /\ c_lane.at # "off" /\ ~C20_InPump => Finished(c_lane) /\ Finished(g_lane))
    /\ [][/\ hc = "pump" /\ hc' # "pump" => Finished(c_lane) \/ Finished(g_lane)
          /\ C20_InPump /\ ~C20_InPump' =>
                /\ c_lane' = IF Finished(c_lane) THEN c_lane
                              ELSE [at |-> "cancelled", kind |-> "none"]
                /\ g_lane'.at = IF Finished(g_lane) THEN g_lane.at ELSE "cancelled"]_vars
\* handle_messages is over after the client lane ended on a closed websocket,
\* the upstream lane cancelled in the middle of an event.
C20_Witness ==
    /\ hc = "exit_with"
    /\ c_lane.at = "done"
    /\ g_lane.at = "cancelled"
    /\ done_ev = NoEvent
    /\ session.is_receiving_response


\* --------------------------------------------------------- one text turn
\* C19: a text message of the client is forwarded upstream by send() with
\* end_of_turn=True; an upstream content event of one text part with
\* turn_complete, arriving while no interrupt stands and the client stays
\* connected, delivers to the client the text first and turn_complete after
\* it, each exactly once.
C19_TextTurn == Content(FALSE, <<"text">>, TRUE)
C19_TextTaken == /\ lane_ev.what = "message"
                 /\ lane_ev.msg.parses
                 /\ lane_ev.msg.type = "text"
                 /\ lane_ev.msg.data \in 1..MAX_TEXT_LENGTH
C19_TextTurnOrder ==
    /\ C19_TextTaken =>
           /\ upstream = [call |-> "send", type |-> "text", end_of_turn |-> TRUE]
           /\ c_lane.at = "send_text"
           /\ sent = <<>>
    /\ turn.event = C19_TextTurn =>
           /\ turn.delivered \in {<<>>, <<"text">>, <<"text", "turn_complete">>}
           /\ done_ev.content /\ done_ev.dropped = 0 /\ Open =>
                  turn.delivered = <<"text", "turn_complete">>
\* The text went upstream, and the turn that came back has been delivered.
C19_Witness ==
    /\ upstream = [call |-> "send", type |-> "text", end_of_turn |-> TRUE]
    /\ c_lane.at = "recv"
    /\ turn = [event |-> C19_TextTurn, delivered |-> <<"text", "turn_complete">>]
    /\ done_ev = Ended(TRUE, TRUE, 0)
    /\ Open


\* ------------------------------------------------------- errors at the end
\* C21: in a session that ends with a fatal error, handle_messages and
\* handle_client together send at most one error message to the client before
\* the socket is closed, whichever lanes failed, also when both lanes have
\* finished with errors by the time the pump inspects them.
C21_AtMostOneError == errors_sent <= 1
\* handle_client has returned after the upstream lane raised: one message.
C21_Witness ==
    /\ hc = "returned"
    /\ exc = "other"
    /\ g_lane.at = "raised"
    /\ errors_sent = 1


\* ------------------------------------------------------------- liveness
\* C22: once the client socket has closed while the session is relaying, the
\* session eventually is closed: handle_client has returned, neither lane
\* runs, the upstream handle has been released and the registry entry removed.
C22_Closed ==
    /\ hc = "returned"
    /\ Finished(c_lane) /\ Finished(g_lane)
    /\ handle = "closed" /\ closeCount = 1
    /\ session_id \notin Keys(active_sessions)
C22_TeardownLiveness == (hc = "pump" /\ ~Open) ~> C22_Closed
\* Closed after the client left, the upstream lane cancelled at its receive.
C22_Witness ==
    /\ C22_Closed
    /\ ~Open
    /\ c_lane.at = "done"
    /\ g_lane.at = "cancelled"
    /\ exc = "none"

\* C23: after the upstream handle is acquired, whatever the upstream does
\* during priming, the session eventually sends the ready signal and starts
\* relaying, the client staying connected.  (Violated: the receive loop that
\* follows the priming send waits for an upstream event without a timeout.)
C23_PrimingNeverBlocks ==
    (hc = "priming") ~> (~Open \/ (ready_count = 1 /\ hc = "pump"))


\* ------------------------------------------------ the pump and lane errors
\* C24: when the upstream lane ended with a quota error, and the other lane
\* did not end with an error of its own, the pump sends the one message
\* quota_exceeded, raises nothing, and handle_client goes through its finally
\* without any general error message.
C24_Quota(lane) == lane.at = "raised" /\ lane.kind = "quota"
C25_Benign(t) == LaneOf(t).at = "raised" /\ LaneOf(t).kind = "closed"
C25_Fatal(t) == LaneOf(t).at = "raised" /\ LaneOf(t).kind \in {"timeout", "other"}
C25_Pump ==
    /\ hc = "inspect" /\ todo # {} /\ (\A t \in todo : C25_Benign(t))
          => hc' = "inspect" /\ exc' = "none" /\ ErrorsOfTeardown(sent', hc) = 0
    /\ hc = "inspect" /\ todo # {} /\ todo' # todo /\ (\A t \in todo : C25_Fatal(t))
          => hc' = "exit_with" /\ exc' \in {LaneOf(t).kind : t \in todo}
C25_Reported == /\ hc = "except" /\ hc' = "finally"
                /\ c_lane.at # "off"
                /\ Open
C25_ErrorClasses ==
    [][C25_Pump /\ (C25_Reported => sent' = <<"error:general">>)]_vars

\* C25, amended: the same, except that handle_client reports a raised
\* asyncio.TimeoutError with error_type timeout and every other raised error
\* as a general error.
C25_ErrorClassesAmended ==
    [][C25_Pump /\ (C25_Reported => sent' = IF exc = "timeout" THEN <<"error:timeout">>
                                              ELSE <<"error:general">>)]_vars
\* The upstream lane raised, the pump raised it on, and the general error
\* message has just been sent.
C25_Witness ==
    /\ hc = "finally"
    /\ exc = "other"
    /\ C25_Fatal("gemini")
    /\ sent = <<"error:general">>
    /\ Open


\* ---------------------------------------------------- the client lane, order
\* C26: the client lane is a single consumer that handles the messages in
\* their order of arrival: a message is taken only when the one before has
\* been handled to its end, the upstream call of a message is made while that
\* message is being handled, one at most, and the lane then waits for it; so
\* the calls on the upstream handle follow the order of the messages.
C26_InOrder ==
    [][/\ session'.message_count # session.message_count =>
              /\ session'.message_count = session.message_count + 1
              /\ c_lane.at = "recv"
              /\ lane_ev'.what = "message"
       /\ c_lane'.at \in Sending /\ c_lane'.at # c_lane.at =>
              /\ session'.message_count = session.message_count + 1
              /\ c_lane'.at = SendingAt(lane_ev'.msg.type)
              /\ upstream'.type = lane_ev'.msg.type
       /\ c_lane.at \in Sending /\ c_lane'.at # c_lane.at =>
              /\ c_lane'.at = "recv"
              /\ lane_ev'.what = "send_done"
              /\ UNCHANGED upstream
       /\ upstream' # upstream => c_lane'.at \in Sending /\ c_lane.at = "recv"]_vars
\* The second message of the session, a text, is being sent upstream.
C26_Witness ==
    /\ session.message_count = 2
    /\ lane_ev.what = "message" /\ lane_ev.msg.type = "text"
    /\ c_lane.at = "send_text"
    /\ upstream.type = "text"


\* ------------------------------------------------------ upstream interrupts
\* C27: an upstream content event with interrupted set makes the relay send
\* the interrupted notification to the connected client, whether or not the
\* client's interrupt flag stands, and nothing else of that event, neither a
\* part nor turn_complete; once the notification is sent both the
\* receiving-response flag and the client-interrupt flag are cleared.
C27_UpstreamInterrupt ==
    /\ [](turn.event.interrupted =>
              /\ turn.delivered \in {<<>>, <<"interrupted">>}
              /\ Open => turn.delivered = <<"interrupted">>)
    /\ [][/\ turn'.event.interrupted /\ response_count' # response_count /\ Open
                => sent' = <<"interrupted">> /\ g_lane'.at = "interrupted_sent"
          /\ g_lane.at = "interrupted_sent" /\ g_lane'.at # "interrupted_sent"
                => /\ ~session'.client_interrupted
                   /\ ~session'.is_receiving_response
                   /\ sent' = <<>>
                   /\ g_lane'.at = "recv"]_vars
\* The notification of an interrupted event that came with a part and
\* turn_complete is being sent while the client's interrupt flag stands.
C27_Witness ==
    /\ turn = [event |-> Content(TRUE, <<"audio">>, TRUE), delivered |-> <<"interrupted">>]
    /\ g_lane.at = "interrupted_sent"
    /\ session.client_interrupted


\* C28: when the client's interrupt flag is set while the upstream lane is in
\* the middle of the parts of a content event, the part whose send is in
\* progress is the last one delivered: the lane on resuming drops every
\* remaining part of the event, and while the flag stays set no part of a
\* later event is sent either.
C28_MidStream == /\ g_lane.at = "parts"
                 /\ g_lane.parts # <<>>
                 /\ session.client_interrupted
C28_InterruptGranularity ==
    /\ [](g_lane.at = "parts" =>
              turn.delivered \o g_lane.parts = turn.event.parts)
    /\ [][/\ C28_MidStream /\ g_lane' # g_lane =>
                /\ sent' = <<>>
                /\ turn'.delivered = turn.delivered
                /\ g_lane'.at = "recv"
                /\ done_ev' = Ended(g_lane.turn_complete, FALSE, Len(g_lane.parts))
          /\ session.client_interrupted /\ session'.client_interrupted
                /\ response_count' # response_count /\ ~turn'.event.interrupted
                => turn'.delivered \in {<<>>, <<"setup_complete">>, <<"tool_call">>,
                                        <<"go_away">>}]_vars
\* The first of two parts was delivered, the interrupt came during its send,
\* and the second part has just been dropped.
C28_Witness ==
    /\ turn.event.parts = <<"audio", "text">>
    /\ turn.delivered = <<"audio">>
    /\ done_ev.content /\ done_ev.dropped = 1
    /\ session.client_interrupted
    /\ Open


\* C29: an error raised while one upstream event is processed, a send to a
\* client that has gone, is caught and skipped: the lane stands at its
\* receive again, it ends with an exception only when receive() itself
\* raises, and it can take the next upstream event.
C29_EventIsolation ==
    /\ [](g_lane.at = "recv" /\ response_count < MaxEvents
              => ENABLED (\E r \in Responses : GeminiReceive(r)))
    /\ [][/\ ~Open /\ g_lane.at # "recv" /\ g_lane' # g_lane
                => g_lane'.at = "recv" /\ sent' = <<>>
          /\ ~Open /\ response_count' # response_count => g_lane'.at = "recv"
          /\ g_lane'.at = "raised" /\ g_lane.at # "raised" => g_lane.at = "recv"]_vars
\* The send of the first event failed on the closed websocket, and the lane
\* has taken the second event.
C29_Witness ==
    /\ ~Open
    /\ response_count = 2
    /\ g_lane.at = "recv"
    /\ turn.event.field = "server_content"
    /\ done_ev = Ended(turn.event.turn_complete, FALSE, 0)

\* C30: the registry lock is never held across a suspension point. A unit of
\* work that holds _session_lock is the one the event loop is running, and a
\* unit of work that is not running stands at no acquire, so none waits for
\* the lock behind a suspended holder.
C30_LockNotHeldSuspended ==
    \A u \in Units :
        /\ session_lock = u => running = u
        /\ running # u => Stmt(u).op # "acquire"

\* A connection holds the lock inside update_session_activity while the other
\* connection waits for its client's message and the sweep sleeps.
C30_Witness ==
    /\ session_lock = "client1"
    /\ unit_at["client1"] = 8
    /\ unit_at["client2"] = 6 /\ running # "client2"
    /\ unit_at["sweep"] = 1 /\ running # "sweep"

\* ------------------------------------------------- after the release
\* C31: no operation is issued on the upstream handle after its release. The
\* handle is closed only when neither lane runs, a lane cancelled by the
\* finally of handle_messages having been awaited to its end; once the handle
\* is closed neither lane moves again.
C31_Idle(lane) == lane.at = "off" \/ Finished(lane)
C31_NoUseAfterRelease ==
    [][/\ handle' = "closed" =>
            /\ C31_Idle(c_lane) /\ C31_Idle(g_lane)
            /\ UNCHANGED <<c_lane, g_lane>>
       /\ handle = "closed" => handle' = "closed" /\ closeCount' = closeCount]_vars
\* handle_client has returned with the handle closed, after the upstream lane
\* raised and the client lane was cancelled while it waited for a message.
C31_Witness ==
    /\ hc = "returned"
    /\ handle = "closed"
    /\ g_lane.at = "raised"
    /\ c_lane.at = "cancelled"

\* ------------------------------------------------------- the idle sweep
\* C33: a sweep removes from the registry exactly the sessions whose
\* inactivity at the scan (the time of the scan minus last_activity) is
\* greater than SESSION_TIMEOUT_SECONDS, and leaves every other session as it
\* was; a session whose last_activity was set within the timeout before the
\* scan, as update_session_activity does on each client message, stays.
C33_SweepRemovesIdleOnly ==
    [][lastOp'.op = "sweep" =>
          LET reg  == active_sessions
              regN == active_sessions'
              idle == {reg[i].id : i \in {j \in 1..Len(reg) :
                           now - reg[j].last_activity > SESSION_TIMEOUT_SECONDS}}
          IN  /\ Keys(reg) \ Keys(regN) = idle
              /\ Keys(regN) \subseteq Keys(reg)
              /\ \A id \in Keys(regN) : EntryOf(regN, id) = EntryOf(reg, id)
              /\ \A i \in 1..Len(reg) :
                     now - reg[i].last_activity <= SESSION_TIMEOUT_SECONDS =>
                         reg[i].id \in Keys(regN)]_vars
\* A sweep has removed an idle session and kept one whose last activity lies
\* within the timeout, after the time of its creation.
C33_Witness ==
    /\ lastOp.op = "sweep" /\ lastOp.evicted # NoId
    /\ Len(active_sessions) = 1
    /\ active_sessions[1].last_activity > 0
    /\ now - active_sessions[1].last_activity = SESSION_TIMEOUT_SECONDS

\* ------------------------------------------------- eviction
\* C32: whenever the upstream handle of the session is open and its lanes run,
\* the session is in the registry.  (Violated: the sweep removes the entry of
\* an idle session and leaves its handle and its lanes as they are.)
C32_Live == handle = "open" /\ ~Finished(c_lane) /\ ~Finished(g_lane)
C32_EvictionDestroys == C32_Live => session_id \in Keys(active_sessions)

\* ------------------------------------------------- the rate window
\* C34: every rate check appends the time of the attempt to the record of its
\* IP, the attempt being accepted or rejected.  (Violated: check_rate_limit
\* returns False before the append, a rejected attempt is not recorded.)
C34_AlwaysRecorded ==
    [][\A c \in Conns :
          RateChecked(c) =>
              LET h == Lookup(connection_attempts', lastArrival'.ip)
              IN  Len(h) > 0 /\ h[Len(h)] = now
                  /\ Len(h) = 1 + Len(SelectSeq(Lookup(connection_attempts, lastArrival'.ip),
                                        LAMBDA x : now - x < RATE_LIMIT_WINDOW_SECONDS))]_vars

\* ------------------------------------------------- the acknowledgment
\* C35: the setup_complete acknowledgment is forwarded to the client at most
\* once per session: an upstream event carrying setup_complete that comes
\* after one whose acknowledgment was forwarded forwards nothing.  (Violated:
\* the lane forwards an acknowledgment for each such event.)
C35_AcknowledgedOnce ==
    [][(/\ turn.event.field = "setup_complete"
        /\ turn.delivered = <<"setup_complete">>
        /\ response_count' = response_count + 1
        /\ turn'.event.field = "setup_complete") =>
            turn'.delivered = <<>>]_vars

\* ------------------------------------------------- the connection counter
\* C36: the counter of concurrent connections is taken with the slot and given
\* back on every way out of the admitted section (the close after a failed rate
\* check, the close after a failed origin check, the end of handle_client):
\* in every state active_connections is the number of connections inside the
\* admitted section, the semaphore holds the other slots, the counter stays in
\* 0..MAX_CONCURRENT_CONNECTIONS, and it is 0 when every connection is over.
C36_Over(c) == conn[c] \in {"done", "rejected_capacity"}
C36_CounterPaired ==
    /\ active_connections = Cardinality(AdmittedConns)
    /\ sem_value = MAX_CONCURRENT_CONNECTIONS - active_connections
    /\ active_connections \in 0..MAX_CONCURRENT_CONNECTIONS
    /\ (\A c \in Conns : C36_Over(c)) => active_connections = 0
\* Every connection is over, two of them of one IP having passed the rate
\* check; the counter is back at 0, every slot is free and no session is left.
C36_Witness ==
    /\ \A c \in Conns : conn[c] = "done"
    /\ active_connections = 0 /\ sem_value = MAX_CONCURRENT_CONNECTIONS
    /\ \E ip \in DOMAIN accepted_at : Len(accepted_at[ip]) = MAX_CONNECTIONS_PER_MINUTE
    /\ Len(active_sessions) = 0

\* ------------------------------------------------- sessions and slots
\* C37: the registry never holds more sessions than there are connections
\* inside the admitted section: each session is the one of a connection that
\* holds a slot, created after the slot was taken and removed before it is
\* given back.  With MAX_CONCURRENT_CONNECTIONS not above MAX_SESSIONS,
\* create_session never finds the registry full and evicts nothing.
C37_SessionsWithinAdmitted ==
    /\ [](/\ Len(active_sessions) <= Cardinality(AdmittedConns)
          /\ Keys(active_sessions) \subseteq {SessionIdOf(c) : c \in AdmittedConns})
    /\ [][\A c \in Conns :
             (/\ MAX_CONCURRENT_CONNECTIONS <= MAX_SESSIONS
              /\ ArrivalStep(c) /\ conn'[c] = "in_session") =>
                 /\ Len(active_sessions) < MAX_SESSIONS
                 /\ create_session(active_sessions, SessionIdOf(c), now).evicted = NoId
                 /\ Keys(active_sessions') = Keys(active_sessions) \cup {SessionIdOf(c)}]_vars
\* Every slot is held by a connection with its session, the latest of them
\* created after the first connection had ended and its session was removed.
C37_Witness ==
    /\ conn[1] = "done"
    /\ Keys(active_sessions) = {SessionIdOf(2), SessionIdOf(3)}
    /\ Cardinality(AdmittedConns) = MAX_CONCURRENT_CONNECTIONS
    /\ accepted_at # <<>>

\* ------------------------------------------------- the sweep of the records
\* C38: the sweep of the rate limiter is transparent to the rate check.  A
\* pass deletes only records that are empty or whose every timestamp is older
\* than the window and leaves the others as they are; at every time the rate
\* check decides for each IP on the swept records as it decides on the
\* accepted attempts of that IP, which no sweep touches.
C38_SweepStep == conn' = conn /\ connection_attempts' # connection_attempts
C38_SweepTransparent ==
    /\ [](\A ip \in IPs :
             check_rate_limit(connection_attempts, ip, now).ok
                 = check_rate_limit(accepted_at, ip, now).ok)
    /\ [][C38_SweepStep =>
             /\ DOMAIN connection_attempts' \subseteq DOMAIN connection_attempts
             /\ \A ip \in DOMAIN connection_attempts' :
                    connection_attempts'[ip] = connection_attempts[ip]
             /\ \A ip \in DOMAIN connection_attempts \ DOMAIN connection_attempts' :
                    \A i \in 1..Len(connection_attempts[ip]) :
                        now - connection_attempts[ip][i] > RATE_LIMIT_WINDOW_SECONDS]_vars
\* The record of an IP whose attempts were accepted has been deleted by a
\* pass of the sweep, the record of the other IP being kept.
C38_Witness ==
    \E ip \in DOMAIN accepted_at :
        /\ ip \notin DOMAIN connection_attempts
        /\ DOMAIN connection_attempts # {}

\* ------------------------------------------------- what an attempt records
\* C39: the checks of an arriving connection run in the order concurrency,
\* rate, origin, and only an attempt that passes the rate check is recorded.
\* A connection turned away for capacity leaves connection_attempts as it
\* was; one turned away by the rate check leaves the record of its IP with the
\* timestamps inside the window and nothing more; one that passes the rate
\* check has its time appended to them, its origin being accepted or not.
C39_ArrivalStep(c) ==
    LET ip     == lastArrival'.ip
        recent == SelectSeq(Lookup(connection_attempts, ip),
                            LAMBDA x : now - x < RATE_LIMIT_WINDOW_SECONDS)
        after  == Lookup(connection_attempts', ip)
    IN  ArrivalStep(c) =>
            /\ (conn'[c] = "rejected_capacity") <=> (sem_value = 0)
            /\ conn'[c] = "rejected_capacity" => connection_attempts' = connection_attempts
            /\ conn'[c] = "closing_rate" =>
                   Len(recent) >= MAX_CONNECTIONS_PER_MINUTE /\ after = recent
            /\ conn'[c] \in {"closing_origin", "in_session"} =>
                   Len(recent) < MAX_CONNECTIONS_PER_MINUTE /\ after = Append(recent, now)
            /\ (conn'[c] = "closing_origin") =>
                   ~validate_origin(lastArrival'.ws, ALLOW_NO_ORIGIN)
C39_OnlyPassedRecorded == [][\A c \in Conns : C39_ArrivalStep(c)]_vars
\* A connection that passed the rate check is being closed for its origin,
\* and its attempt has filled the window of its IP.
C39_Witness ==
    /\ \E c \in Conns : conn[c] = "closing_origin"
    /\ lastArrival.ip \in DOMAIN connection_attempts
    /\ LET h == connection_attempts[lastArrival.ip]
       IN  Len(h) = MAX_CONNECTIONS_PER_MINUTE /\ h[Len(h)] = now
    /\ ~check_rate_limit(connection_attempts, lastArrival.ip, now).ok

\* ------------------------------------------------- the interrupt flag
\* C40: on the client lane the interrupt flag is cleared only by an audio
\* message that is not empty, passes the size check and is forwarded.  An
\* interrupt message sets the flag; every other message (an empty or an
\* oversized audio, an image, a text, a tool_response, an end, an invalid
\* one) and the return of an upstream send leave the flag as it was.
C40_FreshAudio(m) ==
    /\ m.parses /\ validate_message_structure(m)
    /\ m.type = "audio"
    /\ m.data > 0
    /\ estimated_size(Base64Len(m.data)) <= MAX_AUDIO_SIZE_BYTES
C40_Interrupt(m) == m.parses /\ validate_message_structure(m) /\ m.type = "interrupt"
C40_ClearedOnlyByAudio ==
    [][/\ lane_ev'.what = "message" =>
             IF C40_FreshAudio(lane_ev'.msg)
             THEN /\ ~session'.client_interrupted
                  /\ c_lane'.at = "send_audio"
                  /\ upstream'.type = "audio"
             ELSE IF C40_Interrupt(lane_ev'.msg)
             THEN session'.client_interrupted
             ELSE session'.client_interrupted = session.client_interrupted
       /\ lane_ev'.what = "send_done" =>
             session'.client_interrupted = session.client_interrupted]_vars
\* After an interrupt, a text was forwarded upstream and the flag is still set.
C40_Witness ==
    /\ lane_ev.what = "message"
    /\ lane_ev.msg.type = "text"
    /\ c_lane.at = "send_text"
    /\ session.client_interrupted
    /\ session.message_count = 2

====
